---------------------------- MODULE Spec2Model ----------------------------
(***************************************************************************)
(* A model of the ESG dashboard's data layer (src/src/data_loader.py),     *)
(* analyzer (src/src/esg_analyzer.py), what-if simulator                   *)
(* (src/src/esg_simulator.py) and peer benchmarking                        *)
(* (src/src/peer_benchmark.py).                                            *)
(*                                                                         *)
(* A DataFrame is a sequence of rows (records), in row order.  Scores and  *)
(* the other numeric columns are held in tenths of a point (clean_data     *)
(* rounds the score columns to one decimal), so 50.0 is 500.  Where the    *)
(* code computes with floats (the what-if simulator, the trends, the       *)
(* sector and peer means, the quantiles, the percentile ranks, the         *)
(* overview) the value is an IEEE-754 double computed operation by         *)
(* operation as the code does.                                             *)
(*                                                                         *)
(* Every operation of the program is one action: it is enabled while no    *)
(* call has been made (call.op = "none"), draws its arguments from small   *)
(* sets, and leaves the arguments in call and the returned value in ret.   *)
(***************************************************************************)
EXTENDS Integers, Sequences, FiniteSets

VARIABLES
    df,      \* the DataFrame the operation is called on
    call,    \* the operation called and its arguments
    ret      \* the value it returned

vars == <<df, call, ret>>

NoCall == [op |-> "none"]
NoRet == [kind |-> "none"]

-----------------------------------------------------------------------------
(* Natural numbers of any size, as sequences of limbs in base 2^15, the    *)
(* lowest limb first and no zero limb last; <<>> is zero.  They carry the  *)
(* 53-bit significands of the doubles below.                               *)

Base == 2^15

NHead(a) == IF a = <<>> THEN 0 ELSE Head(a)
NTail(a) == IF a = <<>> THEN <<>> ELSE Tail(a)

RECURSIVE NTrim(_)
NTrim(a) ==
    IF a = <<>> THEN <<>>
    ELSE IF a[Len(a)] = 0 THEN NTrim(SubSeq(a, 1, Len(a) - 1))
    ELSE a

\* The limbs of an integer 0 <= n < 2^31.
NFromInt(n) == NTrim(<<n % Base, (n \div Base) % Base, n \div (Base * Base)>>)

\* The integer of a number below 2^31.
RECURSIVE NToInt(_)
NToInt(a) == IF a = <<>> THEN 0 ELSE Head(a) + Base * NToInt(Tail(a))

RECURSIVE NAddC(_, _, _)
NAddC(a, b, c) ==
    IF a = <<>> /\ b = <<>> THEN (IF c = 0 THEN <<>> ELSE <<c>>)
    ELSE LET x == NHead(a) + NHead(b) + c
         IN  <<x % Base>> \o NAddC(NTail(a), NTail(b), x \div Base)

NAdd(a, b) == NAddC(a, b, 0)

RECURSIVE NSubB(_, _, _)
NSubB(a, b, borrow) ==
    IF a = <<>> THEN <<>>
    ELSE LET x == Head(a) - NHead(b) - borrow
         IN  <<x % Base>> \o NSubB(Tail(a), NTail(b), IF x < 0 THEN 1 ELSE 0)

\* a - b for a >= b.
NSub(a, b) == NTrim(NSubB(a, b, 0))

RECURSIVE NMulSmallC(_, _, _)
NMulSmallC(a, k, c) ==
    IF a = <<>> THEN (IF c = 0 THEN <<>> ELSE <<c>>)
    ELSE LET x == Head(a) * k + c
         IN  <<x % Base>> \o NMulSmallC(Tail(a), k, x \div Base)

\* a * k for an integer 0 <= k <= Base.
NMulSmall(a, k) == IF k = 0 THEN <<>> ELSE NMulSmallC(a, k, 0)

RECURSIVE NMul(_, _)
NMul(a, b) ==
    IF a = <<>> \/ b = <<>> THEN <<>>
    ELSE LET rest == NMul(a, Tail(b))
         IN  NAdd(NMulSmall(a, Head(b)),
                  IF rest = <<>> THEN <<>> ELSE <<0>> \o rest)

RECURSIVE NDivSmallFrom(_, _, _, _)
NDivSmallFrom(a, k, i, r) ==
    IF i = 0 THEN <<<<>>, r>>
    ELSE LET x == r * Base + a[i]
             lower == NDivSmallFrom(a, k, i - 1, x % k)
         IN  <<Append(lower[1], x \div k), lower[2]>>

\* <<a \div k, a % k>> for an integer 0 < k <= Base.
NDivSmall(a, k) ==
    LET d == NDivSmallFrom(a, k, Len(a), 0)
    IN  <<NTrim(d[1]), d[2]>>

\* a * 2^n and a \div 2^n, for n >= 0.
NShl(a, n) ==
    IF a = <<>> THEN <<>>
    ELSE [i \in 1..(n \div 15) |-> 0] \o NMulSmall(a, 2^(n % 15))
NShr(a, n) ==
    IF n \div 15 >= Len(a) THEN <<>>
    ELSE NDivSmall(SubSeq(a, (n \div 15) + 1, Len(a)), 2^(n % 15))[1]

\* The number of bits of a.
NBitLen(a) ==
    IF a = <<>> THEN 0
    ELSE 15 * (Len(a) - 1)
         + (CHOOSE k \in 1..15 : 2^(k - 1) <= a[Len(a)] /\ a[Len(a)] < 2^k)

NOdd(a) == a # <<>> /\ a[1] % 2 = 1

\* -1, 0 or 1 as a is below, equal to or above b.
NCmp(a, b) ==
    IF Len(a) # Len(b) THEN (IF Len(a) < Len(b) THEN -1 ELSE 1)
    ELSE LET D == {i \in 1..Len(a) : a[i] # b[i]}
         IN  IF D = {} THEN 0
             ELSE LET i == CHOOSE j \in D : \A l \in D : l <= j
                  IN  IF a[i] < b[i] THEN -1 ELSE 1

\* a / 2^n rounded to the nearest integer, a tie going to the even one;
\* sticky says that a stands for a value slightly above it.
NRoundHalf(q1, q, rest) ==
    IF NOdd(q1) /\ (rest \/ NOdd(q)) THEN NAdd(q, <<1>>) ELSE q
NRoundLast(a, n, sticky, q1) ==
    NRoundHalf(q1, NShr(q1, 1), sticky \/ NShl(q1, n - 1) # a)
NRoundShr(a, n, sticky) ==
    IF n <= 0 THEN NShl(a, 0 - n) ELSE NRoundLast(a, n, sticky, NShr(a, n - 1))

-----------------------------------------------------------------------------
(* IEEE-754 doubles, the values of Python's float and numpy's float64: a   *)
(* double is <<sign, m, e>> and stands for sign * m * 2^e, with sign 1 or  *)
(* -1 and m a number of exactly 53 bits; zero is <<1, <<>>, 0>>.  Every    *)
(* operation rounds its exact result to the nearest double, a tie going to *)
(* the even significand.  The values met here are far from overflow and    *)
(* from the subnormals, which are left out, as is the sign of zero.        *)

FZero == <<1, <<>>, 0>>

\* The double nearest to sign * M * 2^E (slightly more when sticky).
FNormal(sign, q, e) ==
    IF NBitLen(q) > 53 THEN <<sign, NShr(q, 1), e + 1>> ELSE <<sign, q, e>>
FRoundBits(sign, M, E, sticky, L) ==
    IF L <= 53 THEN <<sign, NShl(M, 53 - L), E - (53 - L)>>
    ELSE FNormal(sign, NRoundShr(M, L - 53, sticky), E + (L - 53))
FRound(sign, M, E, sticky) ==
    IF M = <<>> THEN FZero ELSE FRoundBits(sign, M, E, sticky, NBitLen(M))

\* float(n) of an integer -2^31 < n < 2^31.
FInt(n) ==
    FRound(IF n < 0 THEN -1 ELSE 1, NFromInt(IF n < 0 THEN 0 - n ELSE n), 0, FALSE)

FNeg(x) == IF x[2] = <<>> THEN x ELSE <<0 - x[1], x[2], x[3]>>
FAbs(x) == <<1, x[2], x[3]>>

\* x + y
\* sx * a * 2^e + sy * b * 2^e, where c compares a with b.
FAddOrdered(sx, sy, a, b, e, c) ==
    IF sx # sy /\ c = 0 THEN FZero
    ELSE FRound(IF sx = sy \/ c > 0 THEN sx ELSE sy,
                IF sx = sy THEN NAdd(a, b)
                ELSE IF c > 0 THEN NSub(a, b) ELSE NSub(b, a),
                e, FALSE)
FAddAligned(sx, sy, a, b, e) == FAddOrdered(sx, sy, a, b, e, NCmp(a, b))
FAddFrom(x, y, e) ==
    FAddAligned(x[1], y[1], NShl(x[2], x[3] - e), NShl(y[2], y[3] - e), e)
FAdd(x, y) ==
    IF x[2] = <<>> THEN y
    ELSE IF y[2] = <<>> THEN x
    ELSE FAddFrom(x, y, IF x[3] < y[3] THEN x[3] ELSE y[3])

\* x - y
FSub(x, y) == FAdd(x, FNeg(y))

\* x * y
FMul(x, y) == FRound(x[1] * y[1], NMul(x[2], y[2]), x[3] + y[3], FALSE)

\* x / k for an integer 0 < k <= Base.
FRoundDivided(sign, d, e) == FRound(sign, d[1], e, d[2] # 0)
FDivInt(x, k) == FRoundDivided(x[1], NDivSmall(NShl(x[2], 30), k), x[3] - 30)

\* The greatest g in lo..hi with g * d <= n, where lo * d <= n < (hi + 1) * d.
RECURSIVE NDivDigit(_, _, _, _)
NDivDigit(n, d, lo, hi) ==
    IF lo = hi THEN lo
    ELSE LET mid == (lo + hi + 1) \div 2
         IN  IF NCmp(NMulSmall(d, mid), n) <= 0 THEN NDivDigit(n, d, mid, hi)
             ELSE NDivDigit(n, d, lo, mid - 1)

\* <<q, rest>> for 0 <= r < d: q holds the k limbs of the integer part of
\* r * Base^k / d (leading zeros kept) and rest is what the division leaves
\* over; long division, a limb at a time, the limb g of n = r * Base first.
RECURSIVE NDivLimbs(_, _, _)
NDivPut(lower, g) == <<Append(lower[1], g), lower[2]>>
NDivTake(n, d, k, g) == NDivPut(NDivLimbs(NSub(n, NMulSmall(d, g)), d, k - 1), g)
NDivShifted(n, d, k) == NDivTake(n, d, k, NDivDigit(n, d, 0, Base - 1))
NDivLimbs(r, d, k) ==
    IF k = 0 THEN <<<<>>, r>>
    ELSE NDivShifted(IF r = <<>> THEN <<>> ELSE <<0>> \o r, d, k)

\* x / y for y other than zero: the significands' quotient to 60 binary
\* places, top its integer part (0 or 1), rounded once.
FRoundQuotient(sign, d, top, e) ==
    FRound(sign, NTrim(Append(d[1], top)), e, d[2] # <<>>)
FDivFrom(x, y, top) ==
    FRoundQuotient(x[1] * y[1],
                   NDivLimbs(IF top = 1 THEN NSub(x[2], y[2]) ELSE x[2], y[2], 4),
                   top, x[3] - y[3] - 60)
FDiv(x, y) ==
    IF x[2] = <<>> THEN FZero
    ELSE FDivFrom(x, y, IF NCmp(x[2], y[2]) >= 0 THEN 1 ELSE 0)

\* x < y and x <= y
FNegative(d) == d[2] # <<>> /\ d[1] = -1
FLt(x, y) == FNegative(FSub(x, y))
FLe(x, y) == ~FLt(y, x)

\* The double a value held in tenths is read as: 65.5 for 655.
FTenths(t) == FDivInt(FInt(t), 10)

\* The integer nearest to x * scale, a tie going to the even one, for an
\* integer 0 < scale <= Base: the digits Python's round(x, 1) and the
\* format .1f keep (scale 10) and those of the format .0f (scale 1).  Both
\* round the exact value of the double, which seldom is the tie its decimal
\* notation suggests: round(45.55, 1) is 45.5.
FRoundScaled(x, scale) ==
    x[1] * NToInt(NRoundShr(NMulSmall(x[2], scale), 0 - x[3], FALSE))

\* Python's round(x, 1) of a float, in tenths.
round_float(x) == FRoundScaled(x, 10)

\* round(x, 1) of a numpy float64, in tenths: numpy.round multiplies by 10,
\* takes rint and divides by 10, so the product is rounded to a double
\* before the nearest integer is picked.
round_float64(x) == FRoundScaled(FMul(x, FInt(10)), 1)

\* format(x, '.0f') and format(x, '.1f') (the latter in tenths).
format_0f(x) == FRoundScaled(x, 1)
format_1f(x) == FRoundScaled(x, 10)

\* Whether |x * d - n| * 2^k <= tol, computed exactly, for integers
\* 0 < d <= Base, 0 <= tol <= Base, k >= 0 and any n.
FCloseTo(x, n, d, tol, k) ==
    LET sh == IF x[3] < 0 THEN 0 - x[3] ELSE 0
        a == NShl(NMulSmall(x[2], d), x[3] + sh)
        b == NShl(NFromInt(IF n < 0 THEN 0 - n ELSE n), sh)
        same == (x[1] = 1) = (n >= 0)
        c == NCmp(a, b)
        diff == IF ~same THEN NAdd(a, b)
                ELSE IF c >= 0 THEN NSub(a, b) ELSE NSub(b, a)
    IN  NCmp(NShl(diff, k), NShl(NFromInt(tol), sh)) <= 0

\* Whether x is n/d up to the rounding of a few float operations (2^-30).
FNear(x, n, d) == FCloseTo(x, n, d, d, 30)

\* Whether t is a tenth nearest to x.
IsNearestTenth(x, t) == FCloseTo(x, t, 10, 1, 1)

-----------------------------------------------------------------------------
(* Rows and column helpers.                                                *)

Sectors == {"Energy", "Tech"}
Countries == {"FR", "US"}
Years == {2022, 2023}

\* A row with the columns of the dataset that the functions below read; the
\* numeric columns in tenths.
BaseRow ==
    [company |-> "Acme", sector |-> "Energy", country |-> "FR", year |-> 2023,
     environmental_score |-> 700, social_score |-> 700,
     governance_score |-> 700, total_esg_score |-> 700,
     carbon_emissions_mt |-> 300, safety_incidents |-> 100,
     board_independence_pct |-> 700, controversy_score |-> 700,
     diversity_score |-> 600, market_cap_billion |-> 1200]

\* The sequences over S of length at most n.
SeqUpTo(S, n) == UNION {[1..k -> S] : k \in 0..n}

\* Series.max() of a non-empty set of integers.
MaxOf(S) == CHOOSE m \in S : \A x \in S : x <= m

-----------------------------------------------------------------------------
(* data_loader.filter_data                                                 *)

\* A list argument is a set here: the code reads it through isin() and its
\* truth value only, and None and [] are both false, the empty set.
filter_data_restart(d, companies, sectors, countries, years) ==
    LET f1 == IF companies # {}
              THEN SelectSeq(d, LAMBDA r : r.company \in companies) ELSE d
        f2 == IF sectors # {}
              THEN SelectSeq(f1, LAMBDA r : r.sector \in sectors) ELSE f1
        f3 == IF countries # {}
              THEN SelectSeq(f2, LAMBDA r : r.country \in countries) ELSE f2
        f4 == IF years # {}
              THEN SelectSeq(d, LAMBDA r : r.year \in years) ELSE f3
    IN  f4

filter_data(d, companies, sectors, countries, years) ==
    LET f1 == IF companies # {}
              THEN SelectSeq(d, LAMBDA r : r.company \in companies) ELSE d
        f2 == IF sectors # {}
              THEN SelectSeq(f1, LAMBDA r : r.sector \in sectors) ELSE f1
        f3 == IF countries # {}
              THEN SelectSeq(f2, LAMBDA r : r.country \in countries) ELSE f2
        f4 == IF years # {}
              THEN SelectSeq(f3, LAMBDA r : r.year \in years) ELSE f3
    IN  f4

MaxFilterRows == 2

FilterCompanies == {"Acme", "Bolt"}

FilterRows ==
    {[BaseRow EXCEPT !.company = c, !.sector = s, !.country = k, !.year = y] :
        c \in FilterCompanies, s \in Sectors, k \in Countries, y \in Years}

InitFilter ==
    /\ df \in SeqUpTo(FilterRows, MaxFilterRows)
    /\ call = NoCall
    /\ ret = NoRet

FilterData ==
    /\ call.op = "none"
    /\ \E companies \in SUBSET FilterCompanies, sectors \in SUBSET Sectors,
          countries \in SUBSET Countries, years \in SUBSET Years :
        /\ call' = [op |-> "filter_data", companies |-> companies,
                    sectors |-> sectors, countries |-> countries,
                    years |-> years]
        /\ ret' = [kind |-> "frame",
                   rows |-> filter_data(df, companies, sectors, countries, years)]
    /\ UNCHANGED df

NextFilter == FilterData

SpecFilter == InitFilter /\ [][NextFilter]_vars

\* Whether row r meets every criterion of the call that is a non-empty list.
Matches(r) ==
    /\ call.companies # {} => r.company \in call.companies
    /\ call.sectors # {} => r.sector \in call.sectors
    /\ call.countries # {} => r.country \in call.countries
    /\ call.years # {} => r.year \in call.years

KeptIndexes == {i \in 1..Len(df) : Matches(df[i])}

\* The k-th smallest element of a set of integers.
Nth(S, k) == CHOOSE i \in S : Cardinality({j \in S : j <= i}) = k

\* C1: filter_data returns exactly the rows of df that meet every criterion
\* given as a non-empty list, each once, unmodified and in df's order.
C1_FilterExact ==
    call.op = "filter_data" =>
        /\ Len(ret.rows) = Cardinality(KeptIndexes)
        /\ \A k \in 1..Len(ret.rows) : ret.rows[k] = df[Nth(KeptIndexes, k)]

\* Two criteria are given, a row meets both and is kept, and another row
\* meets only one of them and is dropped.
C1_Witness ==
    /\ call.op = "filter_data"
    /\ call.sectors # {} /\ call.years # {}
    /\ Len(df) = 2 /\ Len(ret.rows) = 1
    /\ \E i \in 1..2 : df[i].sector \in call.sectors /\ df[i].year \notin call.years

-----------------------------------------------------------------------------
(* esg_analyzer.identify_risks                                             *)

\* The thresholds of the risk rules, in tenths.
EnvRiskBelow == 500
EnvHighBelow == 400
CarbonRiskAbove == 500
CarbonHighAbove == 1000
SocialRiskBelow == 500
SocialHighBelow == 400
SafetyRiskAbove == 200
SafetyHighAbove == 400
GovRiskBelow == 600
GovHighBelow == 500
BoardRiskBelow == 600
ControversyRiskBelow == 600
ControversyHighBelow == 500

\* df[df['company'] == company]
company_rows(d, company) == SelectSeq(d, LAMBDA r : r.company = company)

\* The first row of the company, whatever its year.
latest_row_first(company_data) == Head(company_data)

\* company_data[company_data['year'] == company_data['year'].max()].iloc[0]
latest_row(company_data) ==
    LET latest_year == MaxOf({company_data[i].year : i \in 1..Len(company_data)})
    IN  Head(SelectSeq(company_data, LAMBDA r : r.year = latest_year))

\* A risk entry; the description is the message's wording and the value the
\* f-string puts in it.
Risk(category, severity, wording, value) ==
    [category |-> category, severity |-> severity,
     description |-> <<wording, value>>]

\* The environmental rule rating a score on its stricter bound High.
risks_of_high_inclusive(latest) ==
    (IF latest.environmental_score < EnvRiskBelow
     THEN <<Risk("Environmental",
                 IF latest.environmental_score <= EnvHighBelow
                 THEN "High" ELSE "Medium",
                 "Environmental score below industry threshold",
                 latest.environmental_score)>>
     ELSE <<>>)
    \o
    (IF latest.carbon_emissions_mt > CarbonRiskAbove
     THEN <<Risk("Environmental",
                 IF latest.carbon_emissions_mt > CarbonHighAbove
                 THEN "High" ELSE "Medium",
                 "High carbon emissions", latest.carbon_emissions_mt)>>
     ELSE <<>>)
    \o
    (IF latest.social_score < SocialRiskBelow
     THEN <<Risk("Social",
                 IF latest.social_score < SocialHighBelow
                 THEN "High" ELSE "Medium",
                 "Social score indicates workforce or community concerns",
                 latest.social_score)>>
     ELSE <<>>)
    \o
    (IF latest.safety_incidents > SafetyRiskAbove
     THEN <<Risk("Social",
                 IF latest.safety_incidents > SafetyHighAbove
                 THEN "High" ELSE "Medium",
                 "Elevated safety incidents", latest.safety_incidents)>>
     ELSE <<>>)
    \o
    (IF latest.governance_score < GovRiskBelow
     THEN <<Risk("Governance",
                 IF latest.governance_score < GovHighBelow
                 THEN "High" ELSE "Medium",
                 "Governance score suggests oversight concerns",
                 latest.governance_score)>>
     ELSE <<>>)
    \o
    (IF latest.board_independence_pct < BoardRiskBelow
     THEN <<Risk("Governance", "Medium", "Low board independence",
                 latest.board_independence_pct)>>
     ELSE <<>>)
    \o
    (IF latest.controversy_score < ControversyRiskBelow
     THEN <<Risk("Reputation",
                 IF latest.controversy_score < ControversyHighBelow
                 THEN "High" ELSE "Medium",
                 "Controversy score indicates reputational risks",
                 latest.controversy_score)>>
     ELSE <<>>)

risks_of(latest) ==
    (IF latest.environmental_score < EnvRiskBelow
     THEN <<Risk("Environmental",
                 IF latest.environmental_score < EnvHighBelow
                 THEN "High" ELSE "Medium",
                 "Environmental score below industry threshold",
                 latest.environmental_score)>>
     ELSE <<>>)
    \o
    (IF latest.carbon_emissions_mt > CarbonRiskAbove
     THEN <<Risk("Environmental",
                 IF latest.carbon_emissions_mt > CarbonHighAbove
                 THEN "High" ELSE "Medium",
                 "High carbon emissions", latest.carbon_emissions_mt)>>
     ELSE <<>>)
    \o
    (IF latest.social_score < SocialRiskBelow
     THEN <<Risk("Social",
                 IF latest.social_score < SocialHighBelow
                 THEN "High" ELSE "Medium",
                 "Social score indicates workforce or community concerns",
                 latest.social_score)>>
     ELSE <<>>)
    \o
    (IF latest.safety_incidents > SafetyRiskAbove
     THEN <<Risk("Social",
                 IF latest.safety_incidents > SafetyHighAbove
                 THEN "High" ELSE "Medium",
                 "Elevated safety incidents", latest.safety_incidents)>>
     ELSE <<>>)
    \o
    (IF latest.governance_score < GovRiskBelow
     THEN <<Risk("Governance",
                 IF latest.governance_score < GovHighBelow
                 THEN "High" ELSE "Medium",
                 "Governance score suggests oversight concerns",
                 latest.governance_score)>>
     ELSE <<>>)
    \o
    (IF latest.board_independence_pct < BoardRiskBelow
     THEN <<Risk("Governance", "Medium", "Low board independence",
                 latest.board_independence_pct)>>
     ELSE <<>>)
    \o
    (IF latest.controversy_score < ControversyRiskBelow
     THEN <<Risk("Reputation",
                 IF latest.controversy_score < ControversyHighBelow
                 THEN "High" ELSE "Medium",
                 "Controversy score indicates reputational risks",
                 latest.controversy_score)>>
     ELSE <<>>)

identify_risks(d, company) ==
    LET company_data == company_rows(d, company)
        latest == latest_row(company_data)
    IN  IF company_data = <<>> THEN <<>>
        ELSE risks_of(latest)

\* The latest-year rows tried: every column of a rule below, on and above
\* its thresholds.
RiskRows ==
    {[BaseRow EXCEPT !.environmental_score = e, !.carbon_emissions_mt = c,
                     !.social_score = s, !.safety_incidents = i,
                     !.governance_score = g, !.board_independence_pct = b,
                     !.controversy_score = k] :
        e \in {399, 400, 499, 500}, c \in {500, 501, 1000, 1001},
        s \in {399, 400, 499, 500},
        i \in {200, 210, 400, 410}, g \in {499, 500, 599, 600},
        b \in {599, 600}, k \in {499, 500, 599, 600}}

\* An earlier year of the same company: every rule fires on it, or none.
OlderRiskRows ==
    {[BaseRow EXCEPT !.year = 2022, !.environmental_score = e,
                     !.carbon_emissions_mt = 1100 - e, !.social_score = e,
                     !.safety_incidents = 1100 - e, !.governance_score = e,
                     !.board_independence_pct = e, !.controversy_score = e] :
        e \in {300, 900}}

\* Another company's row, of a later year, on which every rule fires.
OtherRiskRow ==
    [BaseRow EXCEPT !.company = "Bolt", !.year = 2024,
                    !.environmental_score = 100, !.carbon_emissions_mt = 2000,
                    !.social_score = 100, !.safety_incidents = 900,
                    !.governance_score = 100, !.board_independence_pct = 100,
                    !.controversy_score = 100]

RiskFrames ==
    {<<r>> : r \in RiskRows}
    \cup {<<o, r>> : o \in OlderRiskRows, r \in RiskRows}
    \cup {<<r, o>> : o \in OlderRiskRows, r \in RiskRows}
    \cup {<<OtherRiskRow, r>> : r \in RiskRows}

InitRisk ==
    /\ df \in RiskFrames
    /\ call = NoCall
    /\ ret = NoRet

IdentifyRisks ==
    /\ call.op = "none"
    /\ \E company \in {"Acme", "Core"} :
        /\ call' = [op |-> "identify_risks", company |-> company]
        /\ ret' = [kind |-> "risks", risks |-> identify_risks(df, company)]
    /\ UNCHANGED df

NextRisk == IdentifyRisks

SpecRisk == InitRisk /\ [][NextRisk]_vars

\* The rows of the called company, as a set.
CalledRows == {r \in {df[i] : i \in 1..Len(df)} : r.company = call.company}

\* The row of the called company with the greatest year.
CalledLatest == CHOOSE r \in CalledRows : \A o \in CalledRows : o.year <= r.year

\* The wordings of the seven rules in the order of the code, each with
\* whether its condition holds on row r.
RuleTable(r) ==
    << <<"Environmental score below industry threshold", r.environmental_score < 500>>,
       <<"High carbon emissions", r.carbon_emissions_mt > 500>>,
       <<"Social score indicates workforce or community concerns", r.social_score < 500>>,
       <<"Elevated safety incidents", r.safety_incidents > 200>>,
       <<"Governance score suggests oversight concerns", r.governance_score < 600>>,
       <<"Low board independence", r.board_independence_pct < 600>>,
       <<"Controversy score indicates reputational risks", r.controversy_score < 600>> >>

ExpectedWordings(r) ==
    LET held == SelectSeq(RuleTable(r), LAMBDA e : e[2])
    IN  [k \in 1..Len(held) |-> held[k][1]]

\* C2: identify_risks returns, for the company's latest-year row, one entry
\* per rule whose condition holds strictly, in rule order and at most seven;
\* a company without rows gets none.
C2_RisksExact ==
    call.op = "identify_risks" =>
        /\ Len(ret.risks) <= 7
        /\ IF CalledRows = {} THEN ret.risks = <<>>
           ELSE [k \in 1..Len(ret.risks) |-> ret.risks[k].description[1]]
                    = ExpectedWordings(CalledLatest)

\* The company has an earlier year on which every rule fires, and its latest
\* row sits on the governance threshold and raises only the carbon risk.
C2_Witness ==
    /\ call.op = "identify_risks"
    /\ Len(df) = 2
    /\ \E i \in 1..2 : df[i].year = 2022 /\ df[i].environmental_score = 300
    /\ CalledRows # {}
    /\ CalledLatest.governance_score = 600
    /\ Len(ret.risks) = 1
    /\ ret.risks[1].description = <<"High carbon emissions", 1001>>

-----------------------------------------------------------------------------
(* esg_simulator.ESGSimulator                                              *)

PillarSet == {"environmental", "social", "governance"}

\* self.weights
weights ==
    [environmental |-> FDivInt(FInt(33), 100), social |-> FDivInt(FInt(33), 100),
     governance |-> FDivInt(FInt(34), 100)]

calculate_total_score(env_score, social_score, gov_score) ==
    FAdd(FAdd(FMul(env_score, weights.environmental),
              FMul(social_score, weights.social)),
         FMul(gov_score, weights.governance))

\* dict.get(key, 0)
Get(dict, key) == IF key \in DOMAIN dict THEN dict[key] ELSE FZero

\* min(100, x)
MinHundred(x) == IF FLt(x, FInt(100)) THEN x ELSE FInt(100)

\* One pillar's projected score.
projected_uncapped(current, improvement_pct) ==
    FAdd(current, FDivInt(FMul(current, improvement_pct), 100))

projected_score(current, improvement_pct) ==
    MinHundred(FAdd(current, FDivInt(FMul(current, improvement_pct), 100)))

\* The totals added to a dict of pillar values.
WithTotal(dict, total) ==
    [k \in DOMAIN dict \cup {"total"} |-> IF k = "total" THEN total ELSE dict[k]]

simulate_improvements(current_scores, improvements) ==
    LET projected ==
            [p \in PillarSet |->
                projected_score(Get(current_scores, p), Get(improvements, p))]
        delta ==
            [p \in PillarSet |-> FSub(projected[p], Get(current_scores, p))]
        current_total ==
            calculate_total_score(Get(current_scores, "environmental"),
                                  Get(current_scores, "social"),
                                  Get(current_scores, "governance"))
        projected_total ==
            calculate_total_score(projected.environmental, projected.social,
                                  projected.governance)
    IN  [current |-> WithTotal(current_scores, current_total),
         projected |-> WithTotal(projected, projected_total),
         delta |-> WithTotal(delta, FSub(projected_total, current_total)),
         improvement_pct |-> improvements]

\* One pillar's entry, from its current score and the increase asked of it.
pillar_recommendation(current, score_increase) ==
    [current |-> current,
     target |-> MinHundred(FAdd(current, score_increase)),
     increase_needed |-> score_increase,
     increase_pct |->
         IF FLt(FZero, current)
         THEN FMul(FDiv(score_increase, current), FInt(100))
         ELSE FZero]

\* The dict returned when the total is below the target.
recommendations_dict(current_scores, target_score, current_total, gap, points_needed) ==
    [p \in PillarSet \cup {"gap", "current_total", "target_total"} |->
        IF p = "gap" THEN gap
        ELSE IF p = "current_total" THEN current_total
        ELSE IF p = "target_total" THEN target_score
        ELSE pillar_recommendation(Get(current_scores, p),
                            FDiv(points_needed, weights[p]))]

\* The function from the comparison on: current_total is the float total,
\* target_score an int; the message holds the total as .1f prints it (in
\* tenths) and the target.
recommendations_for(current_scores, target_score, current_total) ==
    IF FLe(FInt(target_score), current_total)
    THEN [message |-> <<"already meets or exceeds target",
                        format_1f(current_total), target_score>>]
    ELSE recommendations_dict(current_scores, target_score, current_total,
             FSub(FInt(target_score), current_total),
             FDivInt(FSub(FInt(target_score), current_total), 3))

generate_recommendations(current_scores, target_score) ==
    recommendations_for(current_scores, target_score,
        calculate_total_score(Get(current_scores, "environmental"),
                              Get(current_scores, "social"),
                              Get(current_scores, "governance")))

\* The improvement percentage benchmark_simulation asks for one pillar.
improvement_needed(current, target) ==
    IF FLt(current, target)
    THEN IF FLt(FZero, current)
         THEN FMul(FDiv(FSub(target, current), current), FInt(100))
         ELSE FZero
    ELSE FZero

benchmark_simulation(company_scores, sector_avg_scores) ==
    LET improvements ==
            [p \in PillarSet |->
                improvement_needed(Get(company_scores, p),
                                   Get(sector_avg_scores, p))]
    IN  simulate_improvements(company_scores, improvements)

\* Pillar scores in tenths as the dict of scores the simulator is given,
\* and slider positions as the dict of percentages.
ScoreDict(tenths) == [p \in DOMAIN tenths |-> FTenths(tenths[p])]
PctDict(pcts) == [p \in DOMAIN pcts |-> FInt(pcts[p])]

\* A dict of the three pillars from <<environmental, social, governance>>.
ByPillar(triple) ==
    [environmental |-> triple[1], social |-> triple[2], governance |-> triple[3]]

SimScores == {0, 455, 700, 1000}
SimPcts == {0, 10, 50, 150}
SimTargets == {4, 50, 60, 80}
SectorAverages == {0, 455, 620, 1000}

\* Scores whose weighted total is an integer that the float total misses:
\* 6.1, 73.1 and 99.6 weigh 60, the code's total is 59.99999999999999.
RoundedTotalScores == {<<61, 731, 996>>, <<134, 998, 666>>, <<2, 112, 7>>}

InitSim ==
    /\ df = <<>>
    /\ call = NoCall
    /\ ret = NoRet

SimulateImprovements ==
    /\ call.op = "none"
    /\ \E current \in [PillarSet -> SimScores], pct \in [PillarSet -> SimPcts] :
        /\ call' = [op |-> "simulate_improvements", current_scores |-> current,
                    improvements |-> pct]
        /\ ret' = simulate_improvements(ScoreDict(current), PctDict(pct))
    /\ UNCHANGED df

GenerateRecommendations ==
    /\ call.op = "none"
    /\ \E current \in [PillarSet -> SimScores]
                        \cup {ByPillar(t) : t \in RoundedTotalScores},
          target \in SimTargets :
        /\ call' = [op |-> "generate_recommendations",
                    current_scores |-> current, target_score |-> target]
        /\ ret' = generate_recommendations(ScoreDict(current), target)
    /\ UNCHANGED df

BenchmarkSimulation ==
    /\ call.op = "none"
    /\ \E company \in [PillarSet -> SimScores],
          sector \in [PillarSet -> SectorAverages] :
        /\ call' = [op |-> "benchmark_simulation", company_scores |-> company,
                    sector_avg_scores |-> sector]
        /\ ret' = benchmark_simulation(ScoreDict(company), ScoreDict(sector))
    /\ UNCHANGED df

NextSim ==
    \/ SimulateImprovements
    \/ GenerateRecommendations
    \/ BenchmarkSimulation

SpecSim == InitSim /\ [][NextSim]_vars

\* C3: each projected pillar score is min(100, current + current*pct/100),
\* lies between the current score and 100, and delta is the non-negative
\* difference projected - current.
C3_ProjectedCapped ==
    call.op = "simulate_improvements" =>
        \A p \in PillarSet :
            LET c == call.current_scores[p]
                raised == 100 * c + c * call.improvements[p]
                capped == IF raised > 100000 THEN 100000 ELSE raised
            IN  /\ FNear(ret.projected[p], capped, 1000)
                /\ FLe(FTenths(c), ret.projected[p])
                /\ FLe(ret.projected[p], FInt(100))
                /\ ret.delta[p] = FSub(ret.projected[p], FTenths(c))
                /\ FLe(FZero, ret.delta[p])

\* One pillar is raised freely (45.5 by 10% to 50.05) while another would
\* pass 100 and is capped there.
C3_Witness ==
    /\ call.op = "simulate_improvements"
    /\ call.current_scores.environmental = 455
    /\ call.improvements.environmental = 10
    /\ FNear(ret.projected.environmental, 5005, 100)
    /\ call.current_scores.social = 700
    /\ call.improvements.social = 50
    /\ ret.projected.social = FInt(100)
    /\ ret.delta.social = FInt(30)

\* Whether the code's total of the call's current scores is below the
\* call's target.
CalledBelowTarget ==
    FLt(calculate_total_score(FTenths(call.current_scores.environmental),
                              FTenths(call.current_scores.social),
                              FTenths(call.current_scores.governance)),
        FInt(call.target_score))

\* The code's total of the recommended targets.
TargetsTotal ==
    calculate_total_score(ret.environmental.target, ret.social.target,
                          ret.governance.target)

\* C5: whenever the current weighted total is below target_score, the
\* weighted total of the recommended per-pillar targets is at least
\* target_score.
C5_TargetsReachTarget ==
    (call.op = "generate_recommendations" /\ CalledBelowTarget) =>
        FLe(FInt(call.target_score), TargetsTotal)

\* The recommended targets fall short of the target by more than the
\* rounding of the float operations only when a pillar's target was capped
\* at 100.
C5_ShortOnlyWhenCapped ==
    (call.op = "generate_recommendations" /\ CalledBelowTarget
        /\ \A p \in PillarSet : FLt(ret[p].target, FInt(100))) =>
        FNear(TargetsTotal, call.target_score, 1)

\* Targets none of which is capped fall short of the target by the rounding
\* of the float operations: 0, 70 and 70 against 50.
UncappedTargetsShortByRounding ==
    /\ call.op = "generate_recommendations"
    /\ call.current_scores = ByPillar(<<0, 700, 700>>)
    /\ call.target_score = 50
    /\ \A p \in PillarSet : FLt(ret[p].target, FInt(100))
    /\ FLt(TargetsTotal, FInt(50))
    /\ FNear(TargetsTotal, 50, 1)

\* The message is returned exactly when the float total is not below the
\* target.
MessageUnlessBelowTarget ==
    call.op = "generate_recommendations" =>
        (DOMAIN ret = {"message"}) = ~CalledBelowTarget

\* Scores that weigh exactly the target get recommendations, the float
\* total being below it: a gap of 2^-47 for 6.1, 73.1 and 99.6 against 60.
RecommendsAtExactTarget ==
    /\ call.op = "generate_recommendations"
    /\ call.current_scores = ByPillar(<<61, 731, 996>>)
    /\ call.target_score = 60
    /\ DOMAIN ret = PillarSet \cup {"gap", "current_total", "target_total"}
    /\ ret.gap = <<1, NShl(<<1>>, 52), 0 - 99>>
    /\ FLt(ret.current_total, FInt(60))
    /\ FLt(FTenths(61), ret.environmental.target)

\* C6: in benchmark_simulation's result a pillar below the sector average is
\* projected to the sector average (capped at 100) and any other pillar
\* keeps its current score.
C6_ProjectedMatchesSector ==
    call.op = "benchmark_simulation" =>
        \A p \in PillarSet :
            LET c == call.company_scores[p]
                a == call.sector_avg_scores[p]
            IN  FNear(ret.projected[p],
                      IF c < a THEN (IF a > 1000 THEN 1000 ELSE a) ELSE c, 10)

\* The same, for the pillars whose current score is positive.
C6_PositiveMatchesSector ==
    call.op = "benchmark_simulation" =>
        \A p \in PillarSet :
            LET c == call.company_scores[p]
                a == call.sector_avg_scores[p]
            IN  c > 0 =>
                    FNear(ret.projected[p],
                          IF c < a THEN (IF a > 1000 THEN 1000 ELSE a) ELSE c,
                          10)

-----------------------------------------------------------------------------
(* esg_simulator.ESGSimulator.predict_future_trajectory, in the floating   *)
(* point arithmetic of the code.  A number is a Python value: its type     *)
(* ("int", "float", or "float64" for numpy's scalar, which a score read    *)
(* from the DataFrame is) and its value as a double.                       *)

PyInt(n) == [type |-> "int", value |-> FInt(n)]
PyFloat(x) == [type |-> "float", value |-> x]
NpFloat64(x) == [type |-> "float64", value |-> x]

\* The type of the result of an arithmetic operation on x and y.
ResultType(x, y) ==
    IF "float64" \in {x.type, y.type} THEN "float64"
    ELSE IF "float" \in {x.type, y.type} THEN "float"
    ELSE "int"

PyAdd(x, y) == [type |-> ResultType(x, y), value |-> FAdd(x.value, y.value)]
PySub(x, y) == [type |-> ResultType(x, y), value |-> FSub(x.value, y.value)]
PyMul(x, y) == [type |-> ResultType(x, y), value |-> FMul(x.value, y.value)]
\* x / k for an int k: true division, never an int.
PyTrueDiv(x, k) ==
    [type |-> IF x.type = "int" THEN "float" ELSE x.type,
     value |-> FDivInt(x.value, k)]

\* min(100, x): the int 100 unless x is smaller.
PyMin100(x) == IF FLt(x.value, FInt(100)) THEN x ELSE PyInt(100)

\* round(x, 1) in tenths: an int is its own value, a float64 rounds as
\* numpy does and a float as Python does.
PyRound1(x) ==
    IF x.type = "float64" THEN round_float64(x.value) ELSE round_float(x.value)

\* The literal 0.5
Half == PyFloat(FDivInt(FInt(1), 2))

\* dict.get(key, 0) of a dict of numbers.
GetNumber(dict, key) == IF key \in DOMAIN dict THEN dict[key] ELSE PyInt(0)

\* One year's growth without the cap at 100.
grow_uncapped(score, rate) ==
    PyAdd(score, PyMul(PyMul(PySub(PyInt(100), score), PyTrueDiv(rate, 100)), Half))

\* One pass of the inner loop: diminishing returns, capped at 100.
grow(score, rate) ==
    LET improvement ==
            PyMul(PyMul(PySub(PyInt(100), score), PyTrueDiv(rate, 100)), Half)
    IN  PyMin100(PyAdd(score, improvement))

\* The inner loop, run year times from the current score.
RECURSIVE compound(_, _, _)
compound(score, rate, year) ==
    IF year = 0 THEN score ELSE compound(grow(score, rate), rate, year - 1)

\* The row of one year: the pillar scores rounded to one decimal, in tenths,
\* and the weighted total of the rounded scores, a double.
year_scores(current_scores, annual_improvement_rate, year) ==
    [p \in PillarSet |->
        PyRound1(compound(GetNumber(current_scores, p),
                          GetNumber(annual_improvement_rate, p), year))]
year_row(year, scores) ==
    [year |-> year, environmental |-> scores.environmental,
     social |-> scores.social, governance |-> scores.governance,
     total |-> calculate_total_score(FTenths(scores.environmental),
                   FTenths(scores.social), FTenths(scores.governance))]
year_data(current_scores, annual_improvement_rate, year) ==
    year_row(year, year_scores(current_scores, annual_improvement_rate, year))

\* The loop stopping a year early: range(years).
predict_future_trajectory_short(current_scores, annual_improvement_rate, years) ==
    [k \in 1..years |-> year_data(current_scores, annual_improvement_rate, k - 1)]

predict_future_trajectory(current_scores, annual_improvement_rate, years) ==
    [k \in 1..(years + 1) |->
        year_data(current_scores, annual_improvement_rate, k - 1)]

\* The app projects 5 years.
MaxYears == 5

\* current_scores of the app: the latest row's scores, numpy float64, from
\* scores in tenths.
CurrentScores(tenths) == [p \in DOMAIN tenths |-> NpFloat64(FTenths(tenths[p]))]
\* annual_rates of the app: slider / 5, a float, from slider positions 0..50.
AnnualRates(sliders) == [p \in DOMAIN sliders |-> PyTrueDiv(PyInt(sliders[p]), 5)]

\* Scores of the dataset, in tenths.
TrajectoryScores ==
    {<<450, 450, 450>>, <<655, 700, 583>>, <<20, 1000, 999>>, <<0, 3, 875>>,
     <<701, 709, 707>>}
\* Positions of the three improvement sliders.
TrajectorySliders == {<<0, 0, 0>>, <<10, 10, 10>>, <<25, 50, 1>>, <<7, 33, 49>>}

\* What the app passes, and what a caller with plain Python numbers does:
\* floats, a dict without some pillars, a rate above 200 (one year's growth
\* then passes 100).
TrajectoryCurrent ==
    {CurrentScores(ByPillar(t)) : t \in TrajectoryScores}
        \cup {[environmental |-> PyFloat(FTenths(450))],
              [environmental |-> PyFloat(FTenths(20)),
               social |-> PyFloat(FTenths(20)),
               governance |-> PyFloat(FTenths(450))]}
TrajectoryRates ==
    {AnnualRates(ByPillar(s)) : s \in TrajectorySliders}
        \cup {[environmental |-> PyFloat(FInt(2))],
              [environmental |-> PyFloat(FInt(5)), social |-> PyFloat(FInt(2)),
               governance |-> PyInt(250)]}

InitTrajectory ==
    /\ df = <<>>
    /\ call = NoCall
    /\ ret = NoRet

PredictFutureTrajectory ==
    /\ call.op = "none"
    /\ \E current \in TrajectoryCurrent, rate \in TrajectoryRates,
          years \in 0..MaxYears :
        /\ call' = [op |-> "predict_future_trajectory",
                    current_scores |-> current,
                    annual_improvement_rate |-> rate, years |-> years]
        /\ ret' = [kind |-> "frame",
                   rows |-> predict_future_trajectory(current, rate, years)]
    /\ UNCHANGED df

NextTrajectory == PredictFutureTrajectory

SpecTrajectory == InitTrajectory /\ [][NextTrajectory]_vars

\* C4: every pillar score of every projected year is at most 100 and not
\* lower than the score of the year before.
C4_BoundedMonotone ==
    call.op = "predict_future_trajectory" =>
        \A p \in PillarSet :
            /\ \A k \in 1..Len(ret.rows) : ret.rows[k][p] <= 1000
            /\ \A k \in 1..(Len(ret.rows) - 1) : ret.rows[k][p] <= ret.rows[k + 1][p]

\* Over five years a pillar at 2 per cent grows in every year without
\* reaching 100, and another, at a rate above 200, reaches 100 in the first
\* year and stays.
C4_Witness ==
    /\ call.op = "predict_future_trajectory"
    /\ call.years = 5
    /\ DOMAIN call.annual_improvement_rate = PillarSet
    /\ call.annual_improvement_rate.social = PyFloat(FInt(2))
    /\ \A k \in 1..5 : ret.rows[k].social < ret.rows[k + 1].social
    /\ ret.rows[6].social < 1000
    /\ call.annual_improvement_rate.governance = PyInt(250)
    /\ ret.rows[1].governance = 450
    /\ \A k \in 2..6 : ret.rows[k].governance = 1000

-----------------------------------------------------------------------------
(* esg_analyzer.calculate_sector_benchmark, calculate_improvement_areas    *)

\* frame[col] as a sequence of values.
Column(frame, col) == [i \in 1..Len(frame) |-> frame[i][col]]

\* acc + a[i] + ... + a[j], added one after the other.
RECURSIVE FSumSeq(_, _, _, _)
FSumSeq(acc, a, i, j) ==
    IF i > j THEN acc ELSE FSumSeq(FAdd(acc, a[i]), a, i + 1, j)

\* a[j] + a[j + 8] + ... over the first blocks blocks of 8.
RECURSIVE FSumStride(_, _, _)
FSumStride(a, j, blocks) ==
    IF blocks = 1 THEN a[j]
    ELSE FAdd(FSumStride(a, j, blocks - 1), a[j + 8 * (blocks - 1)])

\* numpy's sum of a sequence of doubles (the pairwise summation of
\* add.reduce): fewer than 8 values are added in order from 0.0; up to 128
\* go to 8 running sums that are then paired; more are split in halves.
RECURSIVE pairwise_sum(_)
pairwise_sum(a) ==
    LET n == Len(a)
    IN  IF n < 8 THEN FSumSeq(FZero, a, 1, n)
        ELSE IF n <= 128
        THEN LET blocks == n \div 8
                 r(j) == FSumStride(a, j, blocks)
                 res == FAdd(FAdd(FAdd(r(1), r(2)), FAdd(r(3), r(4))),
                             FAdd(FAdd(r(5), r(6)), FAdd(r(7), r(8))))
             IN  FSumSeq(res, a, 8 * blocks + 1, n)
        ELSE LET half == n \div 2
                 n2 == half - (half % 8)
             IN  FAdd(pairwise_sum(SubSeq(a, 1, n2)),
                      pairwise_sum(SubSeq(a, n2 + 1, n)))

\* Series.mean() of a non-empty column held in tenths: the sum of its
\* doubles divided by their count.
Mean(column) ==
    FDivInt(pairwise_sum([i \in 1..Len(column) |-> FTenths(column[i])]),
            Len(column))

\* The sector's rows of every year.
sector_rows_all_years(d, sector, latest_year) ==
    SelectSeq(d, LAMBDA r : r.sector = sector)

\* df[(df['sector'] == sector) & (df['year'] == latest_year)]
sector_rows(d, sector, latest_year) ==
    SelectSeq(d, LAMBDA r : r.sector = sector /\ r.year = latest_year)

\* The empty dict.
EmptyDict == <<>>

calculate_sector_benchmark(d, company) ==
    LET company_data == company_rows(d, company)
        company_latest == latest_row(company_data)
        sector == company_latest.sector
        sector_data == sector_rows(d, sector, company_latest.year)
    IN  IF company_data = <<>> THEN EmptyDict
        ELSE [company_e |-> FTenths(company_latest.environmental_score),
              sector_e |-> Mean(Column(sector_data, "environmental_score")),
              company_s |-> FTenths(company_latest.social_score),
              sector_s |-> Mean(Column(sector_data, "social_score")),
              company_g |-> FTenths(company_latest.governance_score),
              sector_g |-> Mean(Column(sector_data, "governance_score")),
              company_total |-> FTenths(company_latest.total_esg_score),
              sector_total |-> Mean(Column(sector_data, "total_esg_score")),
              sector |-> sector]

\* A pillar listed also when the company is level with the sector.
improvement_inclusive(area, company_score, sector_score, recommendation) ==
    IF FLe(company_score, sector_score)
    THEN <<[area |-> area,
            gap |-> round_float64(FSub(sector_score, company_score)),
            recommendation |-> recommendation]>>
    ELSE <<>>

\* One comparison with the sector average: the entry appended, if any; the
\* gap is round(diff, 1) of a float64, in tenths.
improvement(area, company_score, sector_score, recommendation) ==
    IF FLt(company_score, sector_score)
    THEN <<[area |-> area,
            gap |-> round_float64(FSub(sector_score, company_score)),
            recommendation |-> recommendation]>>
    ELSE <<>>

calculate_improvement_areas(d, company) ==
    LET benchmark == calculate_sector_benchmark(d, company)
    IN  IF benchmark = EmptyDict THEN <<>>
        ELSE improvement("Environmental", benchmark.company_e, benchmark.sector_e,
                 "Focus on reducing carbon emissions and improving energy efficiency")
             \o
             improvement("Social", benchmark.company_s, benchmark.sector_s,
                 "Enhance workforce diversity, safety programs, and community engagement")
             \o
             improvement("Governance", benchmark.company_g, benchmark.sector_g,
                 "Strengthen board independence and improve executive compensation alignment")

MaxBenchRows == 3

\* Score profiles <<environmental, social, governance, total>>, in tenths.
\* Of the last, three equal scores have a float sum whose third is above
\* the score.
BenchProfiles ==
    <<  <<400, 700, 655, 585>>, <<655, 655, 655, 670>>,
        <<700, 700, 700, 700>>, <<709, 707, 700, 705>>,
        <<54, 7, 643, 237>> >>

\* Acme under either sector and its peer Bolt: <<company, sector, year,
\* position of the profile>>.
BenchListings ==
    {<<"Acme", "Energy", 2023, 1>>, <<"Bolt", "Energy", 2023, 2>>,
     <<"Acme", "Tech", 2022, 2>>, <<"Bolt", "Energy", 2022, 4>>,
     <<"Acme", "Energy", 2023, 3>>, <<"Bolt", "Energy", 2023, 4>>,
     <<"Acme", "Energy", 2023, 5>>, <<"Bolt", "Energy", 2023, 5>>}

BenchRows ==
    {[BaseRow EXCEPT !.company = l[1], !.sector = l[2], !.year = l[3],
                     !.environmental_score = BenchProfiles[l[4]][1],
                     !.social_score = BenchProfiles[l[4]][2],
                     !.governance_score = BenchProfiles[l[4]][3],
                     !.total_esg_score = BenchProfiles[l[4]][4]] :
        l \in BenchListings}

InitBenchmark ==
    /\ df \in SeqUpTo(BenchRows, MaxBenchRows)
    /\ call = NoCall
    /\ ret = NoRet

CalculateSectorBenchmark ==
    /\ call.op = "none"
    /\ \E company \in {"Acme", "Dune"} :
        /\ call' = [op |-> "calculate_sector_benchmark", company |-> company]
        /\ ret' = [kind |-> "benchmark",
                   benchmark |-> calculate_sector_benchmark(df, company)]
    /\ UNCHANGED df

CalculateImprovementAreas ==
    /\ call.op = "none"
    /\ \E company \in {"Acme", "Dune"} :
        /\ call' = [op |-> "calculate_improvement_areas", company |-> company]
        /\ ret' = [kind |-> "improvements",
                   improvements |-> calculate_improvement_areas(df, company)]
    /\ UNCHANGED df

NextBenchmark ==
    \/ CalculateSectorBenchmark
    \/ CalculateImprovementAreas

SpecBenchmark == InitBenchmark /\ [][NextBenchmark]_vars

\* The positions in df of the called company's rows.
CalledIndexes == {i \in 1..Len(df) : df[i].company = call.company}

\* The position of the called company's latest-year row (the first one, if
\* the year is listed twice).
LatestIndex ==
    LET last == {i \in CalledIndexes :
                    \A j \in CalledIndexes : df[j].year <= df[i].year}
    IN  CHOOSE i \in last : \A j \in last : i <= j

\* The positions of the rows with the sector and the year of that row.
PeerIndexes ==
    {i \in 1..Len(df) : /\ df[i].sector = df[LatestIndex].sector
                        /\ df[i].year = df[LatestIndex].year}

\* The sum of a column over a set of positions.
RECURSIVE SumAt(_, _)
SumAt(I, col) ==
    IF I = {} THEN 0
    ELSE LET i == CHOOSE x \in I : TRUE
         IN  df[i][col] + SumAt(I \ {i}, col)

\* Whether the double m is the mean of column col over PeerIndexes, up to
\* the rounding of the float operations.
IsPeerMean(m, col) ==
    FNear(m, SumAt(PeerIndexes, col), 10 * Cardinality(PeerIndexes))

\* C9: calculate_sector_benchmark returns the company's latest-year scores
\* beside the mean of each score over all rows with that row's sector and
\* year, the company's own row included, and an empty dict for a company
\* without rows.
C9_SectorBenchmark ==
    call.op = "calculate_sector_benchmark" =>
        IF CalledIndexes = {} THEN ret.benchmark = <<>>
        ELSE LET b == ret.benchmark
                 row == df[LatestIndex]
             IN  /\ LatestIndex \in PeerIndexes
                 /\ b.sector = row.sector
                 /\ b.company_e = FTenths(row.environmental_score)
                 /\ b.company_s = FTenths(row.social_score)
                 /\ b.company_g = FTenths(row.governance_score)
                 /\ b.company_total = FTenths(row.total_esg_score)
                 /\ IsPeerMean(b.sector_e, "environmental_score")
                 /\ IsPeerMean(b.sector_s, "social_score")
                 /\ IsPeerMean(b.sector_g, "governance_score")
                 /\ IsPeerMean(b.sector_total, "total_esg_score")

\* Acme has two years and changed sector; its latest row shares sector and
\* year with one peer of another score, and the older row does not count.
C9_Witness ==
    /\ call.op = "calculate_sector_benchmark"
    /\ Len(df) = 3
    /\ Cardinality(CalledIndexes) = 2
    /\ \E i \in CalledIndexes : df[i].sector # df[LatestIndex].sector
    /\ Cardinality(PeerIndexes) = 2
    /\ ret.benchmark.company_e = FTenths(400)
    /\ FNear(ret.benchmark.sector_e, 5275, 100)
    /\ ret.benchmark.sector_total = FDivInt(FAdd(FTenths(585), FTenths(670)), 2)

\* The pillars compared, in the order of the code, with their columns.
AreaColumns ==
    << <<"Environmental", "environmental_score">>,
       <<"Social", "social_score">>,
       <<"Governance", "governance_score">> >>

\* The column col of the peers, in row order.
PeerColumn(col) ==
    [k \in 1..Cardinality(PeerIndexes) |-> df[Nth(PeerIndexes, k)][col]]

\* Whether the company's latest score in col is strictly below the sector
\* average calculate_sector_benchmark returns for it: the float mean of col
\* over its peers.
BelowPeers(col) == FLt(FTenths(df[LatestIndex][col]), Mean(PeerColumn(col)))

\* Whether gap, in tenths, is the peers' mean of col minus the company's
\* score, rounded to the nearest tenth.
IsGap(gap, col) ==
    LET n == Cardinality(PeerIndexes)
        over == SumAt(PeerIndexes, col) - df[LatestIndex][col] * n
    IN  /\ 2 * (gap * n - over) <= n
        /\ 2 * (over - gap * n) <= n

\* C10: calculate_improvement_areas lists Environmental, Social and
\* Governance, in that order, each exactly when the company's latest-year
\* score is strictly below the sector average, with the gap rounded to one
\* decimal; never Total ESG; an empty list for a company without rows.
C10_ImprovementAreas ==
    call.op = "calculate_improvement_areas" =>
        IF CalledIndexes = {} THEN ret.improvements = <<>>
        ELSE LET below == SelectSeq(AreaColumns, LAMBDA a : BelowPeers(a[2]))
                 imp == ret.improvements
             IN  /\ Len(imp) = Len(below)
                 /\ \A k \in 1..Len(imp) :
                        /\ imp[k].area = below[k][1]
                        /\ IsGap(imp[k].gap, below[k][2])

\* Acme is below its sector in one pillar (by 12.75, listed as 12.8), level
\* with it in another and above it in the third.
C10_Witness ==
    /\ call.op = "calculate_improvement_areas"
    /\ CalledIndexes # {}
    /\ Cardinality(PeerIndexes) = 2
    /\ Len(ret.improvements) = 1
    /\ ret.improvements[1].area = "Environmental"
    /\ ret.improvements[1].gap = 128
    /\ \E i \in PeerIndexes :
        /\ df[i].governance_score = df[LatestIndex].governance_score
        /\ df[i].social_score < df[LatestIndex].social_score

\* Float rounding decides the gap where the exact difference is a tie: with
\* Acme at 70.0 and Bolt at 70.9 and 70.7 the differences 0.45 and 0.35 are
\* the floats 0.45000000000000284 and 0.3499999999999943, listed as 0.5 and
\* 0.3.
C10_GapsOfFloatDifferences ==
    /\ call.op = "calculate_improvement_areas"
    /\ CalledIndexes # {}
    /\ Len(df) = 2
    /\ df[LatestIndex].environmental_score = 700
    /\ Len(ret.improvements) = 2
    /\ ret.improvements[1].area = "Environmental"
    /\ ret.improvements[1].gap = 5
    /\ ret.improvements[2].area = "Social"
    /\ ret.improvements[2].gap = 3

\* Three peers with the same environmental score 5.4: the float mean
\* calculate_sector_benchmark returns is 5.400000000000001, and the pillar
\* is listed with gap 0.0.
C10_LevelWithPeersListed ==
    /\ call.op = "calculate_improvement_areas"
    /\ CalledIndexes # {}
    /\ Cardinality(PeerIndexes) = 3
    /\ \A i \in PeerIndexes : df[i].environmental_score = 54
    /\ Len(ret.improvements) >= 1
    /\ ret.improvements[1].area = "Environmental"
    /\ ret.improvements[1].gap = 0


-----------------------------------------------------------------------------
(* peer_benchmark.PeerBenchmarking; self.data is df                        *)

\* self.data['year'].max(); NaN, which equals no year, on an empty frame.
data_latest_year(d) ==
    IF d = <<>> THEN -1 ELSE MaxOf({d[i].year : i \in 1..Len(d)})

\* How many values of the column are strictly below value: (col < value).sum()
count_below(column, value) == Len(SelectSeq(column, LAMBDA v : v < value))

\* The rank counting the values equal to the company's as below it.
percentile_inclusive(column, value) ==
    FMul(FDivInt(FInt(Len(SelectSeq(column, LAMBDA v : v <= value))),
                 Len(column)),
         FInt(100))

\* (all_values < value).sum() / len(all_values) * 100, for a non-empty
\* column: a double, the quotient being rounded before it is multiplied.
percentile(column, value) ==
    FMul(FDivInt(FInt(count_below(column, value)), Len(column)), FInt(100))

\* The column in ascending order.
RECURSIVE Sorted(_)
Sorted(column) ==
    IF column = <<>> THEN <<>>
    ELSE LET m == CHOOSE i \in 1..Len(column) :
                      \A j \in 1..Len(column) : column[i] <= column[j]
         IN  <<column[m]>>
             \o Sorted([k \in 1..(Len(column) - 1) |->
                           IF k < m THEN column[k] ELSE column[k + 1]])

\* numpy's linear interpolation from a to b at the fraction rem/den of the
\* way (a quarter, a half or three quarters, exact as doubles): a itself at
\* 0, a + (b - a) * t below a half, b - (b - a) * (1 - t) from a half on.
lerp(a, b, rem, den) ==
    IF rem = 0 THEN a
    ELSE IF 2 * rem < den
    THEN FAdd(a, FMul(FSub(b, a), FDivInt(FInt(rem), den)))
    ELSE FSub(b, FMul(FSub(b, a), FDivInt(FInt(den - rem), den)))

\* The quantile between the values at positions lo + 1 and lo + 2 of the
\* sorted column s (the last value when there is none beyond it).
quantile_at(s, lo, rem, den) ==
    lerp(FTenths(s[lo + 1]),
         FTenths(s[IF lo + 2 <= Len(s) THEN lo + 2 ELSE lo + 1]), rem, den)

\* Series.quantile(num/den) of a non-empty column in tenths, a double:
\* linear interpolation between the two closest ranks, at the position
\* (n - 1) * num/den.
quantile(column, num, den) ==
    quantile_at(Sorted(column), ((Len(column) - 1) * num) \div den,
                ((Len(column) - 1) * num) % den, den)

\* Series.median() of a non-empty column held in tenths, a double: the
\* middle value, or the mean of the two middle values.
median(column) ==
    LET s == Sorted(column)
        n == Len(s)
    IN  IF n % 2 = 1 THEN FTenths(s[(n + 1) \div 2])
        ELSE FDivInt(FAdd(FTenths(s[n \div 2]), FTenths(s[(n \div 2) + 1])), 2)

StatMetrics ==
    << <<"total_esg_score", "Total ESG">>,
       <<"environmental_score", "Environmental">>,
       <<"social_score", "Social">>,
       <<"governance_score", "Governance">> >>

\* The statistics of one metric, as doubles.  sector_std and z_score, which
\* need a square root, are left out: nothing modelled here reads them.
metric_stats(company_data, sector_data, metric, name) ==
    LET company_value == FTenths(company_data[metric])
        column == Column(sector_data, metric)
        sector_mean == Mean(column)
        sector_median == median(column)
    IN  [name |-> name,
         company_value |-> company_value,
         sector_mean |-> sector_mean,
         sector_median |-> sector_median,
         percentile |-> percentile(column, company_data[metric]),
         vs_mean |-> FSub(company_value, sector_mean),
         vs_median |-> FSub(company_value, sector_median)]

calculate_peer_statistics(d, company, sector) ==
    LET latest_year == data_latest_year(d)
        company_data ==
            SelectSeq(d, LAMBDA r : r.company = company /\ r.year = latest_year)
        sector_data == sector_rows(d, sector, latest_year)
    IN  IF company_data = <<>> \/ sector_data = <<>> THEN EmptyDict
        ELSE [k \in 1..Len(StatMetrics) |->
                <<StatMetrics[k][1],
                  metric_stats(Head(company_data), sector_data,
                               StatMetrics[k][1], StatMetrics[k][2])>>]

\* The metrics create_peer_comparison_heatmap asks the matrix for when its
\* caller names none, as the app does.
HeatmapMetrics ==
    <<"total_esg_score", "environmental_score", "social_score",
      "governance_score">>

\* The matrix for a list of metrics: one entry per selected latest-year row,
\* each metric's value (in tenths) with its percentile among all latest-year
\* rows.  The metrics are always given: the only call, in
\* create_peer_comparison_heatmap, passes a list.
create_benchmark_matrix(d, companies, metrics) ==
    LET latest_year == data_latest_year(d)
        company_data ==
            SelectSeq(d, LAMBDA r : r.company \in companies /\ r.year = latest_year)
        all_rows == SelectSeq(d, LAMBDA r : r.year = latest_year)
        entry(row) ==
            [Company |-> row.company,
             metrics |->
                [k \in 1..Len(metrics) |->
                    LET metric == metrics[k]
                    IN  [metric |-> metric, value |-> row[metric],
                         percentile |->
                             percentile(Column(all_rows, metric), row[metric])]]]
    IN  [k \in 1..Len(company_data) |-> entry(company_data[k])]

ChartMetrics ==
    << <<"Total ESG", "total_esg_score">>,
       <<"Environmental", "environmental_score">>,
       <<"Social", "social_score">>,
       <<"Governance", "governance_score">>,
       <<"Diversity", "diversity_score">>,
       <<"Board Independence", "board_independence_pct">> >>

\* The bars of the chart: a percentile per metric name.  sector is "" when
\* none is given (None), and then every latest-year row is compared.
create_percentile_ranking_chart(d, company, sector) ==
    LET latest_year == data_latest_year(d)
        company_data ==
            SelectSeq(d, LAMBDA r : r.company = company /\ r.year = latest_year)
        comparison_data ==
            IF sector # "" THEN sector_rows(d, sector, latest_year)
            ELSE SelectSeq(d, LAMBDA r : r.year = latest_year)
        bar(k) ==
            [name |-> ChartMetrics[k][1],
             percentile |->
                 percentile(Column(comparison_data, ChartMetrics[k][2]),
                            Head(company_data)[ChartMetrics[k][2]])]
    IN  IF company_data = <<>> THEN [kind |-> "empty_figure"]
        ELSE [kind |-> "figure",
              bars |-> IF comparison_data = <<>> THEN <<>>
                       ELSE [k \in 1..Len(ChartMetrics) |-> bar(k)]]

QuartileLabels == <<"Q1 (Bottom 25%)", "Q2", "Q3", "Q4 (Top 25%)">>

\* pd.cut(values, bins=edges, labels=...) with right-closed bins, for edges
\* that increase strictly: the bin of each value, 0 for a value in no bin.
cut(column, edges) ==
    [i \in 1..Len(column) |->
        LET v == FTenths(column[i])
            hit == {k \in 1..(Len(edges) - 1) :
                        FLt(edges[k], v) /\ FLe(v, edges[k + 1])}
        IN  IF hit = {} THEN 0 ELSE CHOOSE k \in hit : TRUE]

create_quartile_analysis(d, sector, metric) ==
    LET latest_year == data_latest_year(d)
        sector_data == sector_rows(d, sector, latest_year)
        column == Column(sector_data, metric)
        edges == <<FInt(0), quantile(column, 1, 4), quantile(column, 1, 2),
                   quantile(column, 3, 4), FInt(100)>>
        bins == cut(column, edges)
    IN  IF sector_data = <<>> THEN [kind |-> "empty_figure"]
        ELSE IF \E k \in 1..4 : ~FLt(edges[k], edges[k + 1])
        THEN [kind |-> "ValueError"]
        ELSE [kind |-> "figure",
              x |-> QuartileLabels,
              y |-> [k \in 1..4 |->
                        Len(SelectSeq(bins, LAMBDA b : b = k))]]

\* The ladder with the middle band starting at the median rank.
insight_list_opportunity_inclusive(pct) ==
    IF FLe(FInt(75), pct) THEN "strengths"
    ELSE IF FLe(pct, FInt(25)) THEN "weaknesses"
    ELSE IF FLt(FInt(25), pct) /\ FLe(pct, FInt(50))
         THEN "opportunities"
    ELSE "none"

\* The list the if/elif ladder puts a metric of that percentile in.
insight_list(pct) ==
    IF FLe(FInt(75), pct) THEN "strengths"
    ELSE IF FLe(pct, FInt(25)) THEN "weaknesses"
    ELSE IF FLt(FInt(25), pct) /\ FLt(pct, FInt(50))
         THEN "opportunities"
    ELSE "none"

\* The entry a metric adds to a list: the metric's display name, the wording
\* of the message and the number the f-string puts in it: the percentile
\* under the format .0f, the gap abs(vs_mean) under .1f (in tenths), 0 when
\* the message has no number.
insight_entry(list, data) ==
    IF list = "strengths"
    THEN <<data.name, "Top quartile performance", format_0f(data.percentile)>>
    ELSE IF list = "weaknesses"
    THEN <<data.name, "Below peer average", format_0f(data.percentile)>>
    ELSE IF list = "opportunities"
    THEN <<data.name, "Room for improvement to reach sector median", 0>>
    ELSE <<data.name, "to reach sector average", format_1f(FAbs(data.vs_mean))>>

\* The entries of one list, in the order of the metrics of stats.
RECURSIVE insight_entries(_, _)
insight_entries(stats, list) ==
    IF stats = <<>> THEN <<>>
    ELSE LET data == Head(stats)[2]
             in_list == insight_list(data.percentile)
             here == IF list = "recommendations"
                     THEN in_list = "weaknesses" ELSE in_list = list
         IN  (IF here THEN <<insight_entry(list, data)>> ELSE <<>>)
                 \o insight_entries(Tail(stats), list)

generate_competitive_insights(d, company, sector) ==
    LET stats == calculate_peer_statistics(d, company, sector)
    IN  IF stats = EmptyDict THEN EmptyDict
        ELSE [strengths |-> insight_entries(stats, "strengths"),
              weaknesses |-> insight_entries(stats, "weaknesses"),
              opportunities |-> insight_entries(stats, "opportunities"),
              recommendations |-> insight_entries(stats, "recommendations")]

MaxPeerRows == 3

\* Score profiles <<total, environmental, social, governance>>, in tenths.
PeerProfiles ==
    <<  <<700, 700, 655, 0>>, <<700, 400, 655, 1000>>,
        <<709, 707, 700, 700>>, <<400, 655, 400, 0>>,
        <<655, 655, 655, 700>> >>

\* Acme, its sector peer Bolt and Core of another sector: <<company, sector,
\* year, position of the profile>>.
PeerListings ==
    {<<"Acme", "Energy", 2023, 1>>, <<"Bolt", "Energy", 2023, 2>>,
     <<"Bolt", "Energy", 2023, 3>>, <<"Bolt", "Energy", 2023, 4>>,
     <<"Core", "Tech", 2023, 4>>, <<"Acme", "Energy", 2022, 5>>,
     <<"Core", "Tech", 2022, 1>>}

PeerRows ==
    {[BaseRow EXCEPT !.company = l[1], !.sector = l[2], !.year = l[3],
                     !.total_esg_score = PeerProfiles[l[4]][1],
                     !.environmental_score = PeerProfiles[l[4]][2],
                     !.social_score = PeerProfiles[l[4]][3],
                     !.governance_score = PeerProfiles[l[4]][4]] :
        l \in PeerListings}

\* Four companies of one sector in one year whose four scores are 0, 98, 99
\* and 100 in rotation, so that each company has every rank once.
QuartetScores == <<0, 980, 990, 1000>>

QuartetFrame ==
    LET names == <<"Acme", "Bolt", "Dune", "Echo">>
        score(k, m) == QuartetScores[((k + m) % 4) + 1]
    IN  [k \in 1..4 |->
            [BaseRow EXCEPT !.company = names[k], !.sector = "Energy",
                            !.year = 2023,
                            !.total_esg_score = score(k, 0),
                            !.environmental_score = score(k, 1),
                            !.social_score = score(k, 2),
                            !.governance_score = score(k, 3)]]

InitPeer ==
    /\ df \in SeqUpTo(PeerRows, MaxPeerRows) \cup {QuartetFrame}
    /\ call = NoCall
    /\ ret = NoRet

CalculatePeerStatistics ==
    /\ call.op = "none"
    /\ \E sector \in Sectors :
        /\ call' = [op |-> "calculate_peer_statistics", company |-> "Acme",
                    sector |-> sector]
        /\ ret' = [kind |-> "stats",
                   stats |-> calculate_peer_statistics(df, "Acme", sector)]
    /\ UNCHANGED df

\* The matrix create_peer_comparison_heatmap builds for the app: the company
\* picked (Acme, when df has it) with the peers picked beside it, and the
\* heatmap's four metrics.
CreateBenchmarkMatrix ==
    /\ call.op = "none"
    /\ "Acme" \in {df[i].company : i \in 1..Len(df)}
    /\ \E peer_companies \in SUBSET ({"Bolt"} \cap {df[i].company : i \in 1..Len(df)}) :
        LET selected_peers == {"Acme"} \cup peer_companies
        IN  /\ call' = [op |-> "create_benchmark_matrix",
                        companies |-> selected_peers,
                        metrics |-> HeatmapMetrics]
            /\ ret' = [kind |-> "matrix",
                       matrix |-> create_benchmark_matrix(df, selected_peers,
                                                          HeatmapMetrics)]
    /\ UNCHANGED df

CreatePercentileRankingChart ==
    /\ call.op = "none"
    /\ \E sector \in Sectors \cup {""} :
        /\ call' = [op |-> "create_percentile_ranking_chart",
                    company |-> "Acme", sector |-> sector]
        /\ ret' = create_percentile_ranking_chart(df, "Acme", sector)
    /\ UNCHANGED df

CreateQuartileAnalysis ==
    /\ call.op = "none"
    /\ \E sector \in Sectors, metric \in {"total_esg_score", "governance_score"} :
        /\ call' = [op |-> "create_quartile_analysis", sector |-> sector,
                    metric |-> metric]
        /\ ret' = create_quartile_analysis(df, sector, metric)
    /\ UNCHANGED df

\* The company is picked among the companies of df (here Acme, when it has a
\* row) and the sector is read from the company's first row.
GenerateCompetitiveInsights ==
    /\ call.op = "none"
    /\ \E company \in {"Acme"} \cap {df[i].company : i \in 1..Len(df)} :
        LET sector == Head(company_rows(df, company)).sector
        IN  /\ call' = [op |-> "generate_competitive_insights",
                        company |-> company, sector |-> sector]
            /\ ret' = [kind |-> "insights",
                       insights |->
                           generate_competitive_insights(df, company, sector)]
    /\ UNCHANGED df

NextPeer ==
    \/ CalculatePeerStatistics
    \/ CreateBenchmarkMatrix
    \/ CreatePercentileRankingChart
    \/ CreateQuartileAnalysis
    \/ GenerateCompetitiveInsights

SpecPeer == InitPeer /\ [][NextPeer]_vars

\* The positions of the rows of the data's latest year.
LatestYearIndexes ==
    {i \in 1..Len(df) : \A j \in 1..Len(df) : df[j].year <= df[i].year}

\* The positions of the latest-year rows of the called sector.
SectorIndexes == {i \in LatestYearIndexes : df[i].sector = call.sector}

\* C7: for every sector with rows in the latest year the quartile chart is
\* produced and its four bar counts add up to the number of those rows.
C7_QuartilesCountEveryRow ==
    (call.op = "create_quartile_analysis" /\ SectorIndexes # {}) =>
        /\ ret.kind = "figure"
        /\ ret.y[1] + ret.y[2] + ret.y[3] + ret.y[4] = Cardinality(SectorIndexes)

\* When the chart is produced, every row with a positive value is counted
\* in exactly one bar.
QuartilesCountPositiveRows ==
    (call.op = "create_quartile_analysis" /\ ret.kind = "figure") =>
        ret.y[1] + ret.y[2] + ret.y[3] + ret.y[4] =
            Cardinality({i \in SectorIndexes : df[i][call.metric] > 0})

\* The chart is produced only for a sector whose values give four distinct
\* bin edges: at least two rows, of different values.
QuartilesNeedDistinctValues ==
    (call.op = "create_quartile_analysis" /\ ret.kind = "figure") =>
        \E i, j \in SectorIndexes : df[i][call.metric] # df[j][call.metric]

\* The positions of the called company's latest-year rows.
CompanyIndexes == {i \in LatestYearIndexes : df[i].company = call.company}

\* Whether the double p is 100 * (number of positions in peers whose col is
\* strictly below value) / (number of positions in peers) up to the rounding
\* of the float operations, lies in 0..100, and is below 100 when the
\* company's own position is among the peers.
IsRank(p, peers, col, value, own) ==
    LET below == Cardinality({j \in peers : df[j][col] < value})
        n == Cardinality(peers)
    IN  /\ FNear(p, 100 * below, n)
        /\ FLe(FInt(0), p) /\ FLe(p, FInt(100))
        /\ own \in peers => FLt(p, FInt(100))

\* The positions the matrix has an entry for, in row order.
MatrixIndexes == {i \in LatestYearIndexes : df[i].company \in call.companies}

\* C8: every percentile of calculate_peer_statistics, create_benchmark_matrix
\* and create_percentile_ranking_chart is 100 * (peer values strictly below
\* the company's) / (peer values), within 0..100, below 100 when the
\* company's own row is a peer, and equal for equal values.
C8_PercentileRank ==
    /\ (call.op = "calculate_peer_statistics" /\ ret.stats # <<>>) =>
            LET own == Nth(CompanyIndexes, 1)
            IN  \A k \in 1..Len(ret.stats) :
                    IsRank(ret.stats[k][2].percentile, SectorIndexes,
                           ret.stats[k][1], df[own][ret.stats[k][1]], own)
    /\ call.op = "create_benchmark_matrix" =>
            /\ Len(ret.matrix) = Cardinality(MatrixIndexes)
            /\ \A k \in 1..Len(ret.matrix) :
                    LET own == Nth(MatrixIndexes, k)
                    IN  \A m \in 1..Len(call.metrics) :
                            LET e == ret.matrix[k].metrics[m]
                            IN  /\ e.metric = call.metrics[m]
                                /\ e.value = df[own][e.metric]
                                /\ IsRank(e.percentile, LatestYearIndexes,
                                          e.metric, e.value, own)
            /\ \A k, l \in 1..Len(ret.matrix) :
                    \A m \in 1..Len(call.metrics) :
                        ret.matrix[k].metrics[m].value = ret.matrix[l].metrics[m].value
                            => ret.matrix[k].metrics[m].percentile
                                   = ret.matrix[l].metrics[m].percentile
    /\ (call.op = "create_percentile_ranking_chart" /\ ret.kind = "figure") =>
            LET own == Nth(CompanyIndexes, 1)
                peers == IF call.sector = "" THEN LatestYearIndexes
                         ELSE SectorIndexes
            IN  \A k \in 1..Len(ret.bars) :
                    IsRank(ret.bars[k].percentile, peers, ChartMetrics[k][2],
                           df[own][ChartMetrics[k][2]], own)

\* Acme is ranked among three sector rows of the latest year with one total
\* score strictly below its own and one equal to it: percentile 100/3.
C8_Witness ==
    /\ call.op = "calculate_peer_statistics"
    /\ Cardinality(SectorIndexes) = 3
    /\ CompanyIndexes # {}
    /\ ret.stats # <<>>
    /\ ret.stats[1][1] = "total_esg_score"
    /\ FNear(ret.stats[1][2].percentile, 100, 3)
    /\ \E j \in SectorIndexes \ CompanyIndexes :
            df[j].total_esg_score = df[Nth(CompanyIndexes, 1)].total_esg_score

\* The matrix ranks Acme and Bolt against a latest-year row of another
\* sector as well: both have the same total score and the same percentile.
C8_WitnessMatrix ==
    /\ call.op = "create_benchmark_matrix"
    /\ Len(ret.matrix) = 2
    /\ Cardinality(LatestYearIndexes) = 3
    /\ ret.matrix[1].Company # ret.matrix[2].Company
    /\ ret.matrix[1].metrics[1].value = ret.matrix[2].metrics[1].value
    /\ Len(ret.matrix[1].metrics) = 4
    /\ FNear(ret.matrix[1].metrics[1].percentile, 100, 3)

\* The chart ranks Acme against a sector it is not in, every row of which
\* is below it: percentile 100.
C8_WitnessChart ==
    /\ call.op = "create_percentile_ranking_chart"
    /\ ret.kind = "figure"
    /\ CompanyIndexes # {}
    /\ call.sector = "Tech"
    /\ Len(ret.bars) = 6
    /\ ret.bars[1].percentile = FInt(100)

-----------------------------------------------------------------------------
(* Severity of the risks identify_risks returns                            *)

\* For each rule's wording, whether row r crosses the rule's stricter bound.
SeverityTable(r) ==
    << <<"Environmental score below industry threshold", r.environmental_score < 400>>,
       <<"High carbon emissions", r.carbon_emissions_mt > 1000>>,
       <<"Social score indicates workforce or community concerns", r.social_score < 400>>,
       <<"Elevated safety incidents", r.safety_incidents > 400>>,
       <<"Governance score suggests oversight concerns", r.governance_score < 500>>,
       <<"Low board independence", FALSE>>,
       <<"Controversy score indicates reputational risks", r.controversy_score < 500>> >>

\* C17: every risk entry is High or Medium, High exactly when the value
\* crosses the stricter bound of its rule, and a board-independence risk is
\* always Medium; so each entry falls in exactly one of the two severity
\* columns.
C17_SeverityExact ==
    (call.op = "identify_risks" /\ CalledRows # {}) =>
        \A k \in 1..Len(ret.risks) :
            LET risk == ret.risks[k]
                table == SeverityTable(CalledLatest)
            IN  /\ risk.severity \in {"High", "Medium"}
                /\ \E i \in 1..7 :
                    /\ table[i][1] = risk.description[1]
                    /\ risk.severity = "High" <=> table[i][2]

\* The latest row sits on the stricter bound of the environmental, social,
\* safety, governance and controversy rules (each Medium), is past the
\* stricter carbon bound (High) and has low board independence (Medium).
C17_Witness ==
    /\ call.op = "identify_risks"
    /\ CalledRows # {}
    /\ CalledLatest.environmental_score = EnvHighBelow
    /\ CalledLatest.carbon_emissions_mt = CarbonHighAbove + 1
    /\ CalledLatest.social_score = SocialHighBelow
    /\ CalledLatest.safety_incidents = SafetyHighAbove
    /\ CalledLatest.governance_score = GovHighBelow
    /\ CalledLatest.board_independence_pct = BoardRiskBelow - 1
    /\ CalledLatest.controversy_score = ControversyHighBelow
    /\ Len(ret.risks) = 7
    /\ \A k \in 1..7 : ret.risks[k].severity = IF k = 2 THEN "High" ELSE "Medium"

-----------------------------------------------------------------------------
(* Shape of the frame predict_future_trajectory returns                    *)

\* C15: predict_future_trajectory returns years + 1 rows with year 0, 1, ...,
\* years in that order; the year-0 row holds the current pillar scores
\* rounded to one decimal (0 for a pillar the dict lacks), and every row's
\* total is the weighted total of that row's three pillar scores, up to the
\* rounding of the float operations.
C15_TrajectoryShape ==
    call.op = "predict_future_trajectory" =>
        /\ Len(ret.rows) = call.years + 1
        /\ \A k \in 1..Len(ret.rows) :
            /\ ret.rows[k].year = k - 1
            /\ FNear(ret.rows[k].total,
                     33 * ret.rows[k].environmental + 33 * ret.rows[k].social
                         + 34 * ret.rows[k].governance, 1000)
        /\ \A p \in PillarSet :
            IF p \in DOMAIN call.current_scores
            THEN IsNearestTenth(call.current_scores[p].value, ret.rows[1][p])
            ELSE ret.rows[1][p] = 0

\* The app's call for scores 65.5, 70.0 and 58.3 with the three sliders at
\* 10: six rows, the second of which holds scores rounded to one decimal
\* whose unrounded values have more decimals.
C15_Witness ==
    /\ call.op = "predict_future_trajectory"
    /\ call.years = 5
    /\ Len(ret.rows) = 6
    /\ call.current_scores = CurrentScores(ByPillar(<<655, 700, 583>>))
    /\ call.annual_improvement_rate = AnnualRates(ByPillar(<<10, 10, 10>>))
    /\ ret.rows[1].environmental = 655
    /\ ret.rows[2].environmental = 658
    /\ ret.rows[2].governance = 587
    /\ FNear(ret.rows[2].total, 64871, 1000)
    /\ ret.rows[6].year = 5
    /\ ret.rows[6].social = 715

-----------------------------------------------------------------------------
(* get_esg_rating: the letter rating and colour of a score (in tenths).    *)

\* The ladder with the BBB step taken only above 50.
get_esg_rating_bbb_exclusive(score) ==
    IF score >= 800 THEN <<"AAA", "#006400">>
    ELSE IF score >= 700 THEN <<"AA", "#228B22">>
    ELSE IF score >= 600 THEN <<"A", "#32CD32">>
    ELSE IF score > 500 THEN <<"BBB", "#FFD700">>
    ELSE IF score >= 400 THEN <<"BB", "#FFA500">>
    ELSE IF score >= 300 THEN <<"B", "#FF6347">>
    ELSE IF score >= 200 THEN <<"CCC", "#FF4500">>
    ELSE <<"CC", "#DC143C">>

get_esg_rating(score) ==
    IF score >= 800 THEN <<"AAA", "#006400">>
    ELSE IF score >= 700 THEN <<"AA", "#228B22">>
    ELSE IF score >= 600 THEN <<"A", "#32CD32">>
    ELSE IF score >= 500 THEN <<"BBB", "#FFD700">>
    ELSE IF score >= 400 THEN <<"BB", "#FFA500">>
    ELSE IF score >= 300 THEN <<"B", "#FF6347">>
    ELSE IF score >= 200 THEN <<"CCC", "#FF4500">>
    ELSE <<"CC", "#DC143C">>

\* Scores from -1.0 to 101.0 in steps of one tenth.
RatingScores == (0 - 10)..1010

InitRating ==
    /\ df = <<>>
    /\ call = NoCall
    /\ ret = NoRet

GetEsgRating ==
    /\ call.op = "none"
    /\ \E score \in RatingScores :
        /\ call' = [op |-> "get_esg_rating", score |-> score]
        /\ ret' = [kind |-> "tuple", value |-> get_esg_rating(score)]
    /\ UNCHANGED df

NextRating == GetEsgRating

SpecRating == InitRating /\ [][NextRating]_vars

\* The bands of the rating table: lowest score of the band (in tenths),
\* rating, colour; the lowest band has no lower end.
RatingBands ==
    << <<200, "CCC", "#FF4500">>, <<300, "B", "#FF6347">>,
       <<400, "BB", "#FFA500">>, <<500, "BBB", "#FFD700">>,
       <<600, "A", "#32CD32">>, <<700, "AA", "#228B22">>,
       <<800, "AAA", "#006400">> >>

\* Position of a rating on the scale, CC lowest.
RatingRank(rating) ==
    IF rating = "CC" THEN 0
    ELSE CHOOSE i \in 1..7 : RatingBands[i][2] = rating

\* C14: get_esg_rating gives every score the one pair of its band - AAA from
\* 80, AA from 70, A from 60, BBB from 50, BB from 40, B from 30, CCC from
\* 20, CC below 20 - and no lower score gets a higher rating.
C14_RatingTable ==
    call.op = "get_esg_rating" =>
        LET score == call.score
            band == Cardinality({i \in 1..7 : RatingBands[i][1] <= score})
        IN  /\ ret.value = IF band = 0 THEN <<"CC", "#DC143C">>
                           ELSE <<RatingBands[band][2], RatingBands[band][3]>>
            /\ \A lower \in RatingScores :
                   lower <= score =>
                       RatingRank(get_esg_rating(lower)[1])
                           <= RatingRank(ret.value[1])

\* A score exactly on a band's lower edge takes that band's rating.
C14_Witness ==
    /\ call.op = "get_esg_rating"
    /\ call.score = 500
    /\ ret.value = <<"BBB", "#FFD700">>

-----------------------------------------------------------------------------
(* The latest row of every company, and the rankings taken from them:      *)
(* data_loader.get_latest_data, esg_analyzer.get_top_performers and        *)
(* get_bottom_performers.                                                  *)

\* The company names in ascending order, the order groupby lists its groups.
CompanyOrder == <<"Acme", "Bolt", "Core">>

\* The position of the first row of a frame that satisfies keep.
FirstPosition(d, keep(_)) ==
    LET S == {i \in 1..Len(d) : keep(d[i])}
    IN  CHOOSE i \in S : \A j \in S : i <= j

\* Every company's first row, whatever its year.
groupby_year_first(d) ==
    LET present == SelectSeq(CompanyOrder,
                       LAMBDA c : \E i \in 1..Len(d) : d[i].company = c)
    IN  [g \in 1..Len(present) |->
            FirstPosition(d, LAMBDA r : r.company = present[g])]

\* df.groupby('company')['year'].idxmax(): per company, in ascending order
\* of company, the position of the first row holding the company's
\* greatest year.
groupby_year_idxmax(d) ==
    LET present == SelectSeq(CompanyOrder,
                       LAMBDA c : \E i \in 1..Len(d) : d[i].company = c)
        top(c) == MaxOf({d[i].year : i \in {j \in 1..Len(d) : d[j].company = c}})
    IN  [g \in 1..Len(present) |->
            FirstPosition(d, LAMBDA r : /\ r.company = present[g]
                                        /\ r.year = top(present[g]))]

\* df.loc[labels]: the rows at the listed positions, in the listed order.
loc(d, labels) == [k \in 1..Len(labels) |-> d[labels[k]]]

get_latest_data(d) == loc(d, groupby_year_idxmax(d))

\* The first n rows as they stand.
RECURSIVE nlargest_unsorted(_, _, _)
nlargest_unsorted(frame, n, metric) ==
    IF n <= 0 \/ frame = <<>> THEN <<>>
    ELSE <<Head(frame)>> \o nlargest_unsorted(Tail(frame), n - 1, metric)

\* The frame without its row at position i.
Without(frame, i) ==
    [k \in 1..(Len(frame) - 1) |-> IF k < i THEN frame[k] ELSE frame[k + 1]]

\* DataFrame.nlargest(n, metric): the n rows of greatest metric in
\* descending order, rows of equal metric in their order in the frame.
RECURSIVE nlargest(_, _, _)
nlargest(frame, n, metric) ==
    IF n <= 0 \/ frame = <<>> THEN <<>>
    ELSE LET best == MaxOf({frame[i][metric] : i \in 1..Len(frame)})
             i == FirstPosition(frame, LAMBDA r : r[metric] = best)
         IN  <<frame[i]>> \o nlargest(Without(frame, i), n - 1, metric)

\* DataFrame.nsmallest(n, metric): the mirror image of nlargest.
RECURSIVE nsmallest(_, _, _)
nsmallest(frame, n, metric) ==
    IF n <= 0 \/ frame = <<>> THEN <<>>
    ELSE LET least == 0 - MaxOf({0 - frame[i][metric] : i \in 1..Len(frame)})
             i == FirstPosition(frame, LAMBDA r : r[metric] = least)
         IN  <<frame[i]>> \o nsmallest(Without(frame, i), n - 1, metric)

\* frame[['company', 'sector', metric]]
ranking_columns(frame, metric) ==
    [k \in 1..Len(frame) |->
        [c \in {"company", "sector", metric} |-> frame[k][c]]]

get_top_performers(d, n, metric) ==
    LET latest_df == loc(d, groupby_year_idxmax(d))
    IN  ranking_columns(nlargest(latest_df, n, metric), metric)

get_bottom_performers(d, n, metric) ==
    LET latest_df == loc(d, groupby_year_idxmax(d))
    IN  ranking_columns(nsmallest(latest_df, n, metric), metric)

MaxLatestRows == 3

LatestListings ==
    {<<"Acme", "Energy">>, <<"Bolt", "Energy">>, <<"Core", "Tech">>}

\* Score profiles <<total, environmental>>, in tenths.
LatestProfiles == {<<400, 700>>, <<700, 400>>}

LatestRows ==
    {[BaseRow EXCEPT !.company = l[1], !.sector = l[2], !.year = y,
                     !.total_esg_score = p[1], !.environmental_score = p[2]] :
        l \in LatestListings, y \in Years, p \in LatestProfiles}

RankingMetrics == {"total_esg_score", "environmental_score"}

\* How many rows a ranking is asked for; the rankings tab asks for 5.
RankingSizes == {1, 2, 5}

InitLatest ==
    /\ df \in SeqUpTo(LatestRows, MaxLatestRows)
    /\ call = NoCall
    /\ ret = NoRet

GetLatestData ==
    /\ call.op = "none"
    /\ call' = [op |-> "get_latest_data"]
    /\ ret' = [kind |-> "frame", rows |-> get_latest_data(df)]
    /\ UNCHANGED df

GetTopPerformers ==
    /\ call.op = "none"
    /\ \E n \in RankingSizes, metric \in RankingMetrics :
        /\ call' = [op |-> "get_top_performers", n |-> n, metric |-> metric]
        /\ ret' = [kind |-> "frame", rows |-> get_top_performers(df, n, metric)]
    /\ UNCHANGED df

GetBottomPerformers ==
    /\ call.op = "none"
    /\ \E n \in RankingSizes, metric \in RankingMetrics :
        /\ call' = [op |-> "get_bottom_performers", n |-> n, metric |-> metric]
        /\ ret' = [kind |-> "frame",
                   rows |-> get_bottom_performers(df, n, metric)]
    /\ UNCHANGED df

NextLatest ==
    \/ GetLatestData
    \/ GetTopPerformers
    \/ GetBottomPerformers

SpecLatest == InitLatest /\ [][NextLatest]_vars

\* The companies with a row in df.
CompaniesInDf == {df[i].company : i \in 1..Len(df)}

\* The greatest year a company has in df.
LastYearOf(c) == MaxOf({df[i].year : i \in {j \in 1..Len(df) : df[j].company = c}})

\* C12: get_latest_data returns one row for every company of df and no
\* other row; each returned row is a row of df and its year is the greatest
\* year its company has in df.
C12_OneLatestRowPerCompany ==
    call.op = "get_latest_data" =>
        /\ \A c \in CompaniesInDf :
            Cardinality({k \in 1..Len(ret.rows) : ret.rows[k].company = c}) = 1
        /\ \A k \in 1..Len(ret.rows) :
            /\ \E i \in 1..Len(df) : df[i] = ret.rows[k]
            /\ ret.rows[k].year = LastYearOf(ret.rows[k].company)

\* A company listed with its older year after its newer one, next to
\* another company: two rows come back, the company's being the newer one.
C12_Witness ==
    /\ call.op = "get_latest_data"
    /\ Len(df) = 3
    /\ df[1].company = "Bolt" /\ df[1].year = 2022
    /\ df[2].company = "Bolt" /\ df[2].year = 2023
    /\ df[3].company = "Acme"
    /\ Len(ret.rows) = 2
    /\ ret.rows[1].company = "Acme"
    /\ ret.rows[2] = df[2]

\* The position in df of a company's latest-year row (the first one, if the
\* year is listed twice).
LatestPosition(c) ==
    LET last == {i \in 1..Len(df) : df[i].company = c /\ df[i].year = LastYearOf(c)}
    IN  CHOOSE i \in last : \A j \in last : i <= j

\* The smaller of two numbers.
Min(a, b) == IF a <= b THEN a ELSE b

\* A ranking's rows are the company, sector and metric of the latest-year
\* rows of distinct companies, min(n, number of companies) of them.
IsRanking(rows, n, metric) ==
    /\ Len(rows) = Min(n, Cardinality(CompaniesInDf))
    /\ \A k \in 1..Len(rows) :
        /\ DOMAIN rows[k] = {"company", "sector", metric}
        /\ rows[k].company \in CompaniesInDf
        /\ rows[k].sector = df[LatestPosition(rows[k].company)].sector
        /\ rows[k][metric] = df[LatestPosition(rows[k].company)][metric]
        /\ \A j \in 1..Len(rows) : rows[j].company = rows[k].company => j = k

\* The companies a ranking leaves out.
Omitted(rows) ==
    CompaniesInDf \ {rows[k].company : k \in 1..Len(rows)}

\* C13: get_top_performers(df, n, metric) returns min(n, number of
\* companies) rows, each the latest-year row of a distinct company, in
\* non-increasing order of metric, and no omitted company's latest-year
\* metric exceeds a returned one; get_bottom_performers mirrors it
\* (non-decreasing order, no omitted company below a returned one).
C13_Rankings ==
    /\ call.op = "get_top_performers" =>
        /\ IsRanking(ret.rows, call.n, call.metric)
        /\ \A k \in 1..(Len(ret.rows) - 1) :
            ret.rows[k][call.metric] >= ret.rows[k + 1][call.metric]
        /\ \A c \in Omitted(ret.rows) : \A k \in 1..Len(ret.rows) :
            df[LatestPosition(c)][call.metric] <= ret.rows[k][call.metric]
    /\ call.op = "get_bottom_performers" =>
        /\ IsRanking(ret.rows, call.n, call.metric)
        /\ \A k \in 1..(Len(ret.rows) - 1) :
            ret.rows[k][call.metric] <= ret.rows[k + 1][call.metric]
        /\ \A c \in Omitted(ret.rows) : \A k \in 1..Len(ret.rows) :
            df[LatestPosition(c)][call.metric] >= ret.rows[k][call.metric]

\* Three companies with totals 40, 70 and 40 are asked for their top two:
\* the one with 70 comes first, and one of the two with 40 is left out.
C13_Witness ==
    /\ call.op = "get_top_performers"
    /\ call.n = 2 /\ call.metric = "total_esg_score"
    /\ Cardinality(CompaniesInDf) = 3
    /\ df[1].total_esg_score = 400 /\ df[2].total_esg_score = 700
    /\ df[3].total_esg_score = 400
    /\ Len(ret.rows) = 2
    /\ ret.rows[1].company = df[2].company
    /\ ret.rows[2].total_esg_score = 400

\* The bottom two of three companies with totals 70, 40 and 70.
C13_WitnessBottom ==
    /\ call.op = "get_bottom_performers"
    /\ call.n = 2 /\ call.metric = "total_esg_score"
    /\ Cardinality(CompaniesInDf) = 3
    /\ df[1].total_esg_score = 700 /\ df[2].total_esg_score = 400
    /\ df[3].total_esg_score = 700
    /\ Len(ret.rows) = 2
    /\ ret.rows[1].company = df[2].company
    /\ ret.rows[2].total_esg_score = 700

-----------------------------------------------------------------------------
(* esg_analyzer.calculate_company_metrics                                  *)

\* The orders frame.sort_values('year') can leave the rows in: ascending by
\* year; the default sort (quicksort) is not stable, so rows of one year
\* come in any order.
sort_values_year(frame) ==
    {[k \in 1..Len(frame) |-> frame[p[k]]] :
        p \in {q \in [1..Len(frame) -> 1..Len(frame)] :
                  /\ \A i, j \in 1..Len(frame) : q[i] = q[j] => i = j
                  /\ \A i, j \in 1..Len(frame) :
                        i < j => frame[q[i]].year <= frame[q[j]].year}}

\* One trend: the float64 difference of the two rows' scores, or the int 0
\* of a company with a single row.
trend(latest, prev, several, col) ==
    IF several THEN FSub(FTenths(latest[col]), FTenths(prev[col])) ELSE FZero

\* The dict made from the company's sorted rows: the scores in tenths, the
\* trends doubles.
company_metrics(company, company_df) ==
    LET latest == company_df[Len(company_df)]
        prev == company_df[Len(company_df) - 1]
        several == Len(company_df) > 1
    IN  [company |-> company,
         sector |-> latest.sector,
         country |-> latest.country,
         year |-> latest.year,
         environmental_score |-> latest.environmental_score,
         social_score |-> latest.social_score,
         governance_score |-> latest.governance_score,
         total_esg_score |-> latest.total_esg_score,
         e_trend |-> trend(latest, prev, several, "environmental_score"),
         s_trend |-> trend(latest, prev, several, "social_score"),
         g_trend |-> trend(latest, prev, several, "governance_score"),
         total_trend |-> trend(latest, prev, several, "total_esg_score"),
         carbon_emissions |-> latest.carbon_emissions_mt,
         controversy_score |-> latest.controversy_score,
         market_cap |-> latest.market_cap_billion]

\* The dicts the call can return for a company that has a row in d, one for
\* each order the sort can leave the company's rows in.
calculate_company_metrics(d, company) ==
    {company_metrics(company, company_df) :
        company_df \in sort_values_year(company_rows(d, company))}

MaxMetricRows == 3

\* Score profiles <<environmental, social, governance, total>>, in tenths.
MetricProfiles ==
    <<  <<400, 700, 655, 585>>, <<700, 400, 700, 584>>,
        <<655, 655, 655, 655>> >>

\* Rows of the dataset, <<company, year, position of the profile>>: Acme
\* over three years, its year 2023 listed twice with different scores
\* (clean_data removes no duplicates), and Bolt.
MetricListings ==
    {<<"Acme", 2021, 3>>, <<"Acme", 2022, 2>>, <<"Acme", 2023, 1>>,
     <<"Acme", 2023, 2>>, <<"Acme", 2022, 1>>, <<"Bolt", 2023, 1>>,
     <<"Bolt", 2022, 3>>}

MetricRows ==
    {[BaseRow EXCEPT !.company = l[1], !.year = l[2],
                     !.environmental_score = MetricProfiles[l[3]][1],
                     !.social_score = MetricProfiles[l[3]][2],
                     !.governance_score = MetricProfiles[l[3]][3],
                     !.total_esg_score = MetricProfiles[l[3]][4]] :
        l \in MetricListings}

\* The dataset: any rows in any order, a row or a year repeated or not.
MetricFrames == SeqUpTo(MetricRows, MaxMetricRows)

InitMetrics ==
    /\ df \in MetricFrames
    /\ call = NoCall
    /\ ret = NoRet

\* The company is picked in a selectbox listing the companies of df.
CalculateCompanyMetrics ==
    /\ call.op = "none"
    /\ \E company \in {df[i].company : i \in 1..Len(df)} :
        \E metrics \in calculate_company_metrics(df, company) :
            /\ call' = [op |-> "calculate_company_metrics", company |-> company]
            /\ ret' = [kind |-> "metrics", metrics |-> metrics]
    /\ UNCHANGED df

NextMetrics == CalculateCompanyMetrics

SpecMetrics == InitMetrics /\ [][NextMetrics]_vars

\* The called company's years in df.
CalledYears == {df[i].year : i \in CalledIndexes}

\* The positions of the called company's rows of a year.
IndexesOfYear(y) == {i \in CalledIndexes : df[i].year = y}

ScoreColumns ==
    <<"environmental_score", "social_score", "governance_score",
      "total_esg_score">>

\* The four trends of the returned dict, in the order of ScoreColumns.
Trends == <<ret.metrics.e_trend, ret.metrics.s_trend, ret.metrics.g_trend,
            ret.metrics.total_trend>>

\* Whether the returned scores are those of the row at position i.
ReportsRow(i) ==
    \A k \in 1..4 : ret.metrics[ScoreColumns[k]] = df[i][ScoreColumns[k]]

\* Whether the returned dict reports a row of the company's latest year,
\* with trends that are that row's scores minus those of a row of the
\* company's previous year, or 0 when the company has a single year.
LatestAgainstPreviousYear ==
    LET latest_year == MaxOf(CalledYears)
        earlier == CalledYears \ {latest_year}
    IN  /\ ret.metrics.year = latest_year
        /\ \E i \in IndexesOfYear(latest_year) :
            /\ ReportsRow(i)
            /\ IF earlier = {} THEN \A k \in 1..4 : Trends[k] = FZero
               ELSE \E j \in IndexesOfYear(MaxOf(earlier)) :
                       \A k \in 1..4 :
                           Trends[k] = FSub(FTenths(df[i][ScoreColumns[k]]),
                                            FTenths(df[j][ScoreColumns[k]]))

\* C11: calculate_company_metrics reports the scores of the company's
\* latest year, and each trend is the latest-year score minus the score of
\* the company's previous year in the data; the four trends are 0 when the
\* company has a single year.
C11_LatestScoresAndTrends ==
    call.op = "calculate_company_metrics" => LatestAgainstPreviousYear

\* The same for a company each of whose years is listed once.
LatestAgainstPreviousWhenYearsDistinct ==
    (call.op = "calculate_company_metrics"
        /\ \A i, j \in CalledIndexes : df[i].year = df[j].year => i = j)
        => LatestAgainstPreviousYear

\* What the code does on any data: the trends compare the last two rows in
\* the order of the years, whatever their years, and are 0 for a single
\* row.
TrendsCompareLastTwoRows ==
    call.op = "calculate_company_metrics" =>
        \E i \in IndexesOfYear(MaxOf(CalledYears)) :
            /\ ReportsRow(i)
            /\ ret.metrics.year = df[i].year
            /\ IF Cardinality(CalledIndexes) = 1
               THEN \A k \in 1..4 : Trends[k] = FZero
               ELSE \E j \in CalledIndexes \ {i} :
                       /\ \A l \in CalledIndexes \ {i} : df[l].year <= df[j].year
                       /\ \A k \in 1..4 :
                           Trends[k] = FSub(FTenths(df[i][ScoreColumns[k]]),
                                            FTenths(df[j][ScoreColumns[k]]))

\* A single year listed twice: the trends compare the two rows, here 30
\* points of environmental score either way, where one year of data should
\* give 0.
SingleYearListedTwice ==
    /\ call.op = "calculate_company_metrics"
    /\ call.company = "Acme"
    /\ Len(df) = 2
    /\ \A i \in 1..2 : df[i].company = "Acme" /\ df[i].year = 2023
    /\ df[1].environmental_score = 400 /\ df[2].environmental_score = 700
    /\ ret.metrics.e_trend \in {FInt(30), FInt(0 - 30)}

\* Three years listed out of order (2023, 2021, 2022): the trends compare
\* 2023 with 2022, here a fall of 30 points in the environmental score and
\* a rise of the total from 58.4 to 58.5, which as a float64 difference is
\* not the double nearest to 0.1.
C11_Witness ==
    /\ call.op = "calculate_company_metrics"
    /\ Len(df) = 3
    /\ \A i \in 1..3 : df[i].company = call.company
    /\ df[1].year = 2023 /\ df[2].year = 2021 /\ df[3].year = 2022
    /\ df[1].environmental_score = 400 /\ df[3].environmental_score = 700
    /\ df[2].environmental_score = 655
    /\ ret.metrics.year = 2023
    /\ ret.metrics.e_trend = FInt(0 - 30)
    /\ FNear(ret.metrics.total_trend, 1, 10)
    /\ ret.metrics.total_trend # FTenths(1)

\* A company with a single row: every trend is 0.
C11_WitnessSingleYear ==
    /\ call.op = "calculate_company_metrics"
    /\ Cardinality(CalledIndexes) = 1
    /\ Len(df) = 2
    /\ ret.metrics.e_trend = FZero /\ ret.metrics.total_trend = FZero

-----------------------------------------------------------------------------
(* The lists of generate_competitive_insights                              *)

\* How many entries of a list carry the display name.
EntriesNamed(list, name) ==
    Cardinality({k \in 1..Len(list) : list[k][1] = name})

\* Of the called sector's latest-year rows, how many have a value of the
\* column strictly below that of the called company's first latest-year row.
PeersBelow(col) ==
    Cardinality({j \in SectorIndexes :
                    df[j][col] < df[Nth(CompanyIndexes, 1)][col]})

\* C19: generate_competitive_insights puts each of the four score metrics in
\* at most one list - strengths when its percentile is at least 75,
\* weaknesses when at most 25, opportunities when strictly between 25 and
\* 50, none from 50 to below 75 - with one recommendation per weakness, and
\* returns an empty dict when calculate_peer_statistics returns nothing.
C19_InsightLists ==
    call.op = "generate_competitive_insights" =>
        IF CompanyIndexes = {} \/ SectorIndexes = {}
        THEN ret.insights = EmptyDict
        ELSE LET ins == ret.insights
                 n == Cardinality(SectorIndexes)
             IN  /\ DOMAIN ins = {"strengths", "weaknesses", "opportunities",
                                  "recommendations"}
                 /\ Len(ins.strengths) + Len(ins.weaknesses)
                        + Len(ins.opportunities) <= 4
                 /\ Len(ins.recommendations) = Len(ins.weaknesses)
                 /\ \A k \in 1..Len(StatMetrics) :
                     LET name == StatMetrics[k][2]
                         b == PeersBelow(StatMetrics[k][1])
                     IN  /\ EntriesNamed(ins.strengths, name)
                                = IF 100 * b >= 75 * n THEN 1 ELSE 0
                         /\ EntriesNamed(ins.weaknesses, name)
                                = IF 100 * b <= 25 * n THEN 1 ELSE 0
                         /\ EntriesNamed(ins.opportunities, name)
                                = IF 25 * n < 100 * b /\ 100 * b < 50 * n
                                  THEN 1 ELSE 0
                         /\ EntriesNamed(ins.recommendations, name)
                                = EntriesNamed(ins.weaknesses, name)

\* Among four peers Acme ranks at 25 (total), 50 (environmental), 75
\* (social) and 0 (governance): one strength, two weaknesses with a
\* recommendation each, and the metric at 50 in no list.
C19_Witness ==
    /\ call.op = "generate_competitive_insights"
    /\ df = QuartetFrame
    /\ call.company = "Acme"
    /\ ret.insights.strengths = << <<"Social", "Top quartile performance", 75>> >>
    /\ ret.insights.weaknesses =
           << <<"Total ESG", "Below peer average", 25>>,
              <<"Governance", "Below peer average", 0>> >>
    /\ ret.insights.opportunities = <<>>
    /\ Len(ret.insights.recommendations) = 2

\* One of three peers below the company: the rank 33.3 is an opportunity.
C19_WitnessOpportunity ==
    /\ call.op = "generate_competitive_insights"
    /\ Cardinality(SectorIndexes) = 3
    /\ ret.insights # EmptyDict
    /\ Len(ret.insights.opportunities) >= 1

\* The company has no row in the data's latest year: the empty dict.
C19_WitnessEmpty ==
    /\ call.op = "generate_competitive_insights"
    /\ CompanyIndexes = {}
    /\ ret.insights = EmptyDict

\* C18: whenever generate_competitive_insights lists a metric as a weakness
\* and recommends improving it to reach the sector average, the company's
\* value of that metric is strictly below the sector's mean of it.
C18_WeaknessBelowSectorMean ==
    (call.op = "generate_competitive_insights" /\ ret.insights # EmptyDict) =>
        \A k \in 1..Len(StatMetrics) :
            LET name == StatMetrics[k][2]
                col == StatMetrics[k][1]
            IN  (/\ EntriesNamed(ret.insights.weaknesses, name) > 0
                 /\ EntriesNamed(ret.insights.recommendations, name) > 0)
                    => df[Nth(CompanyIndexes, 1)][col] * Cardinality(SectorIndexes)
                           < SumAt(SectorIndexes, col)

\* Acme's total of 98 ranks at 25 among the totals 0, 98, 99 and 100, whose
\* mean is 74.25: it is listed as a weakness, with the advice to improve by
\* 23.8 points to reach the sector average it already exceeds.
C18_WeaknessAboveSectorMean ==
    /\ call.op = "generate_competitive_insights"
    /\ df = QuartetFrame
    /\ call.company = "Acme"
    /\ ret.insights.weaknesses[1] = <<"Total ESG", "Below peer average", 25>>
    /\ ret.insights.recommendations[1]
           = <<"Total ESG", "to reach sector average", 238>>
    /\ df[1].total_esg_score * 4 > SumAt(SectorIndexes, "total_esg_score")

\* The gap of a recommendation is abs(vs_mean) of floats under the format
\* .1f: with Acme at 70.0 and Bolt at 70.9 (total) and 70.7 (environmental)
\* the exact gaps 0.45 and 0.35 are shown as 0.5 and 0.3, and the gap 2.25,
\* a tie in binary too, as 2.2.
InsightGapsOfFloatDifferences ==
    /\ call.op = "generate_competitive_insights"
    /\ Len(df) = 2
    /\ df[1].company = "Acme" /\ df[1].total_esg_score = 700
    /\ df[2].company = "Bolt" /\ df[2].total_esg_score = 709
    /\ df[1].year = df[2].year
    /\ ret.insights.recommendations =
           << <<"Total ESG", "to reach sector average", 5>>,
              <<"Environmental", "to reach sector average", 3>>,
              <<"Social", "to reach sector average", 22>>,
              <<"Governance", "to reach sector average", 350>> >>

-----------------------------------------------------------------------------
(* The Overview tab of main(): the sidebar selections, filter_data and     *)
(* esg_analyzer.generate_summary_stats.                                    *)

get_sectors(d) == {d[i].sector : i \in 1..Len(d)}
get_countries(d) == {d[i].country : i \in 1..Len(d)}
get_years(d) == {d[i].year : i \in 1..Len(d)}

\* Series.min() of a non-empty set of integers.
MinOf(S) == CHOOSE m \in S : \A x \in S : m <= x

\* The outcome of a call that raises.
Raised(error) == [kind |-> "raised", error |-> error]

\* The summary of a frame.  On a frame without rows latest_df is empty and
\* Series.idxmax() raises ValueError.
generate_summary_stats(d) ==
    LET latest_df == loc(d, groupby_year_idxmax(d))
        totals == Column(latest_df, "total_esg_score")
        top_score == MaxOf({totals[i] : i \in 1..Len(totals)})
        top == FirstPosition(latest_df, LAMBDA r : r.total_esg_score = top_score)
    IN  IF latest_df = <<>> THEN Raised("ValueError")
        ELSE [kind |-> "stats",
              total_companies |-> Len(latest_df),
              total_sectors |-> Cardinality(get_sectors(latest_df)),
              total_countries |-> Cardinality(get_countries(latest_df)),
              avg_esg_score |-> round_float64(Mean(totals)),
              avg_e_score |->
                  round_float64(Mean(Column(latest_df, "environmental_score"))),
              avg_s_score |-> round_float64(Mean(Column(latest_df, "social_score"))),
              avg_g_score |->
                  round_float64(Mean(Column(latest_df, "governance_score"))),
              top_performer |-> latest_df[top].company,
              top_score |-> top_score,
              years_covered |-> <<MinOf(get_years(d)), MaxOf(get_years(d))>>]

\* Rows of two companies over the sectors, countries and years, with their
\* total scores in tenths: <<company, sector, country, year, total>>.
OverviewListings ==
    {<<"Acme", "Energy", "FR", 2023, 700>>, <<"Bolt", "Tech", "US", 2023, 709>>,
     <<"Acme", "Energy", "FR", 2022, 655>>, <<"Bolt", "Energy", "US", 2022, 54>>,
     <<"Bolt", "Tech", "FR", 2023, 54>>, <<"Acme", "Tech", "US", 2022, 54>>}

OverviewRows ==
    {[BaseRow EXCEPT !.company = l[1], !.sector = l[2], !.country = l[3],
                     !.year = l[4], !.total_esg_score = l[5],
                     !.environmental_score = l[5] + 7] :
        l \in OverviewListings}

\* The dataset has rows.
InitOverview ==
    /\ df \in SeqUpTo(OverviewRows, MaxFilterRows) \ {<<>>}
    /\ call = NoCall
    /\ ret = NoRet

\* One run of main() up to the Overview tab's summary: the multiselects
\* offer the sectors and countries of df, the slider a range of its years.
Overview ==
    /\ call.op = "none"
    /\ \E selected_sectors \in SUBSET get_sectors(df),
          selected_countries \in SUBSET get_countries(df),
          lo \in get_years(df), hi \in get_years(df) :
        /\ lo <= hi
        /\ LET selected_years == {y \in get_years(df) : lo <= y /\ y <= hi}
               filtered_df == filter_data(df, {}, selected_sectors,
                                          selected_countries, selected_years)
           IN  /\ call' = [op |-> "main", companies |-> {},
                           sectors |-> selected_sectors,
                           countries |-> selected_countries,
                           years |-> selected_years]
               /\ ret' = generate_summary_stats(filtered_df)
    /\ UNCHANGED df

NextOverview == Overview

SpecOverview == InitOverview /\ [][NextOverview]_vars

\* C20: for every combination of sidebar selections, the ones no row
\* matches included, main() computes the Overview summary statistics
\* without raising an error.
C20_OverviewNeverRaises ==
    call.op = "main" => ret.kind = "stats"

\* The summary raises exactly when no row of df matches the selections.
C20_RaisesWhenNoRowMatches ==
    call.op = "main" =>
        (ret = Raised("ValueError") <=> KeptIndexes = {})

\* The sectors and countries are both narrowed to one that df has, but no
\* row has the two together: the summary raises.
C20_EmptySelectionRaises ==
    /\ call.op = "main"
    /\ Cardinality(call.sectors) = 1 /\ Cardinality(call.countries) = 1
    /\ KeptIndexes = {}
    /\ ret = Raised("ValueError")

-----------------------------------------------------------------------------
(* pdf_generator.ESGPDFReporter.generate_company_report: the story, the    *)
(* list of flowables handed to doc.build.                                  *)

Spacer == [type |-> "Spacer"]
PageBreak == [type |-> "PageBreak"]
Paragraph(text, style) == [type |-> "Paragraph", text |-> text, style |-> style]

\* The flowable one of the _create_* helpers returns.
Section(helper) == [type |-> "Section", helper |-> helper]

\* key in dict
Has(dict, key) == key \in DOMAIN dict

\* The title page and the three sections every report has.
fixed_sections(company_data, company_name) ==
    <<Spacer,
      Paragraph("ESG Performance Report", "CustomTitle"),
      Paragraph(company_name, "CustomSubtitle"),
      Spacer,
      Paragraph("Generated:", "CustomBody"),
      Spacer,
      Paragraph("Executive Summary", "SectionHeader"),
      Section("_create_executive_summary"),
      Spacer,
      Paragraph("ESG Scores Overview", "SectionHeader"),
      Section("_create_scores_table"),
      Spacer,
      Paragraph("Company Profile", "SectionHeader"),
      Section("_create_company_profile"),
      Spacer>>

\* The three pillar sections, each under its key.
metrics_sections(company_data) ==
    (IF Has(company_data, "environmental_metrics")
     THEN <<PageBreak,
            Paragraph("Environmental Performance", "SectionHeader"),
            Section("_create_environmental_section"), Spacer>>
     ELSE <<>>)
    \o (IF Has(company_data, "social_metrics")
        THEN <<Paragraph("Social Performance", "SectionHeader"),
               Section("_create_social_section"), Spacer>>
        ELSE <<>>)
    \o (IF Has(company_data, "governance_metrics")
        THEN <<Paragraph("Governance Performance", "SectionHeader"),
               Section("_create_governance_section"), Spacer>>
        ELSE <<>>)

\* The risk section written whenever the key is there.
risk_section_key_only(company_data) ==
    IF Has(company_data, "risks")
    THEN <<PageBreak, Paragraph("Risk Assessment", "SectionHeader"),
           Section("_create_risk_section"), Spacer>>
    ELSE <<>>

\* if 'risks' in company_data and company_data['risks']
risk_section(company_data) ==
    IF Has(company_data, "risks") /\ company_data["risks"] # <<>>
    THEN <<PageBreak, Paragraph("Risk Assessment", "SectionHeader"),
           Section("_create_risk_section"), Spacer>>
    ELSE <<>>

\* _create_recommendations_section: a numbered paragraph and a spacer per
\* recommendation.
RECURSIVE create_recommendations_section(_, _)
create_recommendations_section(recommendations, i) ==
    IF recommendations = <<>> THEN <<>>
    ELSE <<Paragraph(<<i, Head(recommendations)>>, "CustomBody"), Spacer>>
             \o create_recommendations_section(Tail(recommendations), i + 1)

\* if 'recommendations' in company_data and company_data['recommendations']
recommendations_section(company_data) ==
    IF /\ Has(company_data, "recommendations")
       /\ company_data["recommendations"] # <<>>
    THEN <<Paragraph("Recommendations", "SectionHeader")>>
             \o create_recommendations_section(company_data["recommendations"], 1)
    ELSE <<>>

generate_company_report(company_data, company_name) ==
    fixed_sections(company_data, company_name)
        \o metrics_sections(company_data)
        \o risk_section(company_data)
        \o recommendations_section(company_data)

\* dict with one more key.
WithKey(dict, key, value) ==
    [k \in DOMAIN dict \cup {key} |-> IF k = key THEN value ELSE dict[k]]

\* dict with the key set to the value in option, unchanged when option is
\* empty.
WithOption(dict, key, option) ==
    IF option = {} THEN dict
    ELSE WithKey(dict, key, CHOOSE v \in option : TRUE)

\* The part of report_data every report has.
ReportBase ==
    [company |-> "Acme", sector |-> "Energy", country |-> "FR", year |-> 2023,
     market_cap_billion |-> 1200, total_esg_score |-> 700,
     environmental_score |-> 700, social_score |-> 700,
     governance_score |-> 700, esg_rating |-> <<"AA", "#228B22">>]

\* A metrics key: absent, an empty dict, or a dict with a value.
MetricsOptions == {{}, {<<>>}, {[value |-> 300]}}

\* The risks key: absent, or a list of up to two risks.
RisksOptions ==
    {{}, {<<>>},
     {<<[category |-> "Governance", severity |-> "Medium"]>>},
     {<<[category |-> "Environmental", severity |-> "High"],
        [category |-> "Social", severity |-> "Medium"]>>}}

\* The recommendations key: absent, or a list of up to two entries.
RecommendationsOptions ==
    {{}, {<<>>},
     {<<[area |-> "Social", gap |-> 128]>>},
     {<<[area |-> "Environmental", gap |-> 50],
        [area |-> "Governance", gap |-> 12]>>}}

InitReport ==
    /\ df = <<>>
    /\ call = NoCall
    /\ ret = NoRet

GenerateCompanyReport ==
    /\ call.op = "none"
    /\ \E e \in MetricsOptions, s \in MetricsOptions, g \in MetricsOptions,
          risks \in RisksOptions, recommendations \in RecommendationsOptions :
        LET company_data ==
                WithOption(WithOption(WithOption(WithOption(WithOption(
                    ReportBase, "environmental_metrics", e),
                    "social_metrics", s), "governance_metrics", g),
                    "risks", risks), "recommendations", recommendations)
        IN  /\ call' = [op |-> "generate_company_report",
                        company_data |-> company_data, company_name |-> "Acme"]
            /\ ret' = [kind |-> "story",
                       story |-> generate_company_report(company_data, "Acme")]
    /\ UNCHANGED df

NextReport == GenerateCompanyReport

SpecReport == InitReport /\ [][NextReport]_vars

\* The sections in the order of the report.
ReportSections ==
    <<"Executive Summary", "ESG Scores Overview", "Company Profile",
      "Environmental Performance", "Social Performance",
      "Governance Performance", "Risk Assessment", "Recommendations">>

\* Whether company_data calls for the section.
SectionDue(section, company_data) ==
    IF section = "Environmental Performance"
    THEN "environmental_metrics" \in DOMAIN company_data
    ELSE IF section = "Social Performance"
    THEN "social_metrics" \in DOMAIN company_data
    ELSE IF section = "Governance Performance"
    THEN "governance_metrics" \in DOMAIN company_data
    ELSE IF section = "Risk Assessment"
    THEN "risks" \in DOMAIN company_data /\ Len(company_data["risks"]) > 0
    ELSE IF section = "Recommendations"
    THEN /\ "recommendations" \in DOMAIN company_data
         /\ Len(company_data["recommendations"]) > 0
    ELSE TRUE

\* The positions in the story of the section headers.
HeaderPositions(story) ==
    {k \in 1..Len(story) :
        story[k].type = "Paragraph" /\ story[k].style = "SectionHeader"}

\* C16: the story starts with the title, then holds the sections in the
\* fixed order; Executive Summary, ESG Scores Overview and Company Profile
\* always, a pillar section only under its *_metrics key, Risk Assessment
\* and Recommendations only when their list is not empty; every section
\* header is followed by content.
C16_ReportSections ==
    call.op = "generate_company_report" =>
        LET story == ret.story
            heads == HeaderPositions(story)
            place(k) == CHOOSE i \in 1..Len(ReportSections) :
                            ReportSections[i] = story[k].text
        IN  /\ story[2] = Paragraph("ESG Performance Report", "CustomTitle")
            /\ \A k \in heads : k > 2
            /\ \A k \in heads :
                /\ \E i \in 1..Len(ReportSections) :
                       ReportSections[i] = story[k].text
                /\ k < Len(story) /\ (k + 1) \notin heads
                /\ \A j \in heads : j < k => place(j) < place(k)
            /\ \A i \in 1..Len(ReportSections) :
                Cardinality({k \in heads : story[k].text = ReportSections[i]})
                    = IF SectionDue(ReportSections[i], call.company_data)
                      THEN 1 ELSE 0

\* No environmental key, an empty social dict, an empty list of risks and
\* two recommendations: five sections, Social Performance and
\* Recommendations after the three fixed ones.
C16_Witness ==
    /\ call.op = "generate_company_report"
    /\ DOMAIN call.company_data
           = DOMAIN ReportBase \cup {"social_metrics", "risks", "recommendations"}
    /\ call.company_data["social_metrics"] = <<>>
    /\ call.company_data["risks"] = <<>>
    /\ Len(call.company_data["recommendations"]) = 2
    /\ Cardinality(HeaderPositions(ret.story)) = 5
    /\ ret.story[16].text = "Social Performance"
    /\ ret.story[19].text = "Recommendations"
    /\ Len(ret.story) = 23

=============================================================================
